---- MODULE Spec2Model ----
(***************************************************************************)
(* The Reactivity Advantage Index (RAI) scoring core of nfl_rai:           *)
(* FeatureEngineer (feature_engineering.py) and RAICalculator              *)
(* (rai_calculator.py).                                                    *)
(*                                                                         *)
(* Numbers.  The code computes in IEEE doubles; the model computes in      *)
(* fixed point over the integers, with one unit per quantity:              *)
(*   x, y                         0.01 yard                                *)
(*   vx, vy, speed_calc           0.01 yard/s                              *)
(*   ax, ay                       0.01 yard/s^2                            *)
(*   jx, jy, jerk_magnitude       0.1  yard/s^3  (thresholds: 8.0 -> 80)   *)
(*   frame_dist, path_length,                                              *)
(*   straight_line_dist, sd       0.0001 yard                              *)
(*   path_efficiency, te, bpq, cms   0.0001                                *)
(*   direction_calc               1 degree                                 *)
(*   curvature                    0.01 degree/yard                         *)
(*   rtd                          1 frame                                  *)
(*   weights                      0.01                                     *)
(*   z-scores                     1/ZScale, composite rai 1/(100*ZScale)   *)
(* A missing float (pandas NaN) is the value NaN.  A DataFrame is a record *)
(* of equally long columns (sequences); row i of Python is row i+1 here.   *)
(***************************************************************************)
EXTENDS Integers, Sequences, FiniteSets, TLC

VARIABLES
    ROLE_WEIGHTS,     \* RAICalculator.ROLE_WEIGHTS   (class attribute, a dict)
    NORMS,            \* RAICalculator.NORMS
    JERK_THRESHOLDS,  \* RAICalculator.JERK_THRESHOLDS
    smooth_sigma,     \* FeatureEngineer.smooth_sigma (instance attribute)
    pc,               \* "idle": the caller is between calls; "done": a call returned
    op,               \* the operation called last
    args,             \* its arguments
    ret,              \* its outcome: [raised |-> exception or "none", value |-> result]
    trace,            \* the scorers the call invoked
    rai_results       \* RAIAnalysis.rai_results: None until a batch was scored

cfgvars == <<ROLE_WEIGHTS, NORMS, JERK_THRESHOLDS, smooth_sigma>>
vars == <<ROLE_WEIGHTS, NORMS, JERK_THRESHOLDS, smooth_sigma, pc, op, args, ret, trace,
          rai_results>>

-----------------------------------------------------------------------------
(* Bounds of the model *)

\* Longest jerk series given directly to the detector
MaxLen == 4

\* Longest jerk series given directly to calculate_rtd
MaxRtdLen == 3

\* Largest min_frames given to the detector
MaxMinFrames == 3

\* frame_id of the first sample: 1..MaxFrameStart
MaxFrameStart == 3

\* Component values: mean + k * step, k in -MaxDev..MaxDev
MaxDev == 1

\* Longest position series of one entity
MaxFrames == 4

\* Entities of a play: 1..MaxPlayers
MaxPlayers == 2

\* Changes of direction along a series
MaxTurns == 2

\* Plays of a batch
MaxPlays == 3

\* Frames of the window in which two entities are compared: 1..MaxSdFrames
MaxSdFrames == 3

\* Longest position series given directly to the path and velocity calculations
MaxPathLen == 5

-----------------------------------------------------------------------------
(* Floats *)

NaN == -999999999

None == {}

Some(v) == {v}

TheValue(o) == CHOOSE v \in o : TRUE

IsNaN(a) == a = NaN

\* a > b on floats: False when either side is NaN
Gt(a, b) == IF IsNaN(a) \/ IsNaN(b) THEN FALSE ELSE a > b

-----------------------------------------------------------------------------
(* Configuration tables *)

Components == <<"rtd", "te", "bpq", "cms", "sd">>

ComponentSet == {"rtd", "te", "bpq", "cms", "sd"}

ZScale == 60000

RoleWeightsTable ==
    [x \in {"Defensive Coverage", "Targeted Receiver", "Pass Route", "Pass Rush", "default"} |->
        CASE x = "Defensive Coverage" -> [rtd |-> -25, te |-> 20, bpq |-> 5,  cms |-> 35, sd |-> -15]
          [] x = "Targeted Receiver"  -> [rtd |-> -15, te |-> 20, bpq |-> 35, cms |-> 5,  sd |-> 25]
          [] x = "Pass Route"         -> [rtd |-> -20, te |-> 25, bpq |-> 30, cms |-> 5,  sd |-> 20]
          [] x = "Pass Rush"          -> [rtd |-> -35, te |-> 35, bpq |-> 5,  cms |-> 10, sd |-> 15]
          [] x = "default"            -> [rtd |-> -20, te |-> 25, bpq |-> 20, cms |-> 20, sd |-> 15]]

NormsTable ==
    [rtd |-> [mean |-> 4,    std |-> 2],
     te  |-> [mean |-> 8500, std |-> 1000],
     bpq |-> [mean |-> 6000, std |-> 1500],
     cms |-> [mean |-> 5000, std |-> 2500],
     sd  |-> [mean |-> 0,    std |-> 20000]]

JerkThresholdsTable ==
    [x \in {"Defensive Coverage", "Pass Rush", "Pass Route", "Targeted Receiver", "Pass Block", "default"} |->
        CASE x = "Defensive Coverage" -> 80
          [] x = "Pass Rush"          -> 120
          [] x = "Pass Route"         -> 60
          [] x = "Targeted Receiver"  -> 50
          [] x = "Pass Block"         -> 100
          [] x = "default"            -> 80]

\* dict.get(key, default)
DictGet(d, key, default) == IF key \in DOMAIN d THEN d[key] ELSE default

\* Role labels of the tracking data: the table keys and two labels in no table
Roles == {"Defensive Coverage", "Targeted Receiver", "Pass Route", "Pass Rush",
          "Pass Block", "default", "Passer", "Other Route Runner"}

-----------------------------------------------------------------------------
(* DataFrames *)

DfLen(df) == Len(df.frame_id)

HasColumn(df, c) == c \in DOMAIN df

\* Row positions of df whose row number is in keep, in row order
RowsOf(n, keep) ==
    [p \in 1..Cardinality(keep) |->
        CHOOSE i \in keep : Cardinality({j \in keep : j <= i}) = p]

\* df.iloc[rows]: every column re-indexed by the sequence rows
Take(df, rows) ==
    [c \in DOMAIN df |-> [p \in 1..Len(rows) |-> df[c][rows[p]]]]

\* df[df[col] == v]
FilterEq(df, col, v) ==
    Take(df, RowsOf(Len(df[col]), {i \in 1..Len(df[col]) : df[col][i] = v}))

\* A variant that leaves the rows in the order given
KeepOrder(df) == df

\* df.sort_values('frame_id'): rows in ascending frame_id, ties in row order
SortOrder(frames) ==
    [p \in 1..Len(frames) |->
        CHOOSE i \in 1..Len(frames) :
            Cardinality({j \in 1..Len(frames) :
                frames[j] < frames[i] \/ (frames[j] = frames[i] /\ j < i)}) = p - 1]

sort_values(df) == Take(df, SortOrder(df.frame_id))

\* df[c] = column, for every c of cols (an assignment replaces a column of that name)
WithColumns(df, cols) == cols @@ df

\* A column holding one value in every row
Const(n, v) == [i \in 1..n |-> v]

-----------------------------------------------------------------------------
(* Float arithmetic in fixed point *)

Abs(a) == IF a < 0 THEN -a ELSE a

MinOf(a, b) == IF a < b THEN a ELSE b

MaxOf(a, b) == IF a > b THEN a ELSE b

\* a / b rounded to the nearest unit (half away from zero), b > 0
RoundDiv(a, b) == IF a >= 0 THEN (2 * a + b) \div (2 * b) ELSE -((2 * (-a) + b) \div (2 * b))

RECURSIVE SqrtSearch(_, _, _)
SqrtSearch(n, lo, hi) ==
    IF lo >= hi THEN lo
    ELSE LET mid == (lo + hi + 1) \div 2
         IN IF mid * mid <= n THEN SqrtSearch(n, mid, hi) ELSE SqrtSearch(n, lo, mid - 1)

\* floor(sqrt(n))
FloorSqrt(n) == SqrtSearch(n, 0, MinOf(n, 46340))

\* sqrt(n) to the nearest unit
RoundSqrt(n) == LET r == FloorSqrt(n) IN IF n - r * r > r THEN r + 1 ELSE r

\* sqrt(n) rounded up: CeilSqrt(n) > t exactly when sqrt(n) > t, for an integer t
CeilSqrt(n) == LET r == FloorSqrt(n) IN IF r * r = n THEN r ELSE r + 1

\* tan((k - 1/2) degrees) * 10000, k = 1..45
TanHalf == <<87, 262, 437, 612, 787, 963, 1139, 1317, 1495, 1673, 1853, 2035, 2217,
             2401, 2586, 2773, 2962, 3153, 3346, 3541, 3739, 3939, 4142, 4348, 4557,
             4770, 4986, 5206, 5430, 5658, 5890, 6128, 6371, 6619, 6873, 7133, 7400,
             7673, 7954, 8243, 8541, 8847, 9163, 9490, 9827>>

\* np.degrees(np.arctan2(y, x)) % 360 to the nearest degree; arctan2(0, 0) = 0
Atan2Deg(y, x) ==
    IF IsNaN(y) \/ IsNaN(x) THEN NaN
    ELSE LET a == MaxOf(Abs(x), Abs(y))
             b == MinOf(Abs(x), Abs(y))
             base == Cardinality({k \in 1..45 : b * 10000 > TanHalf[k] * a})
             first == IF Abs(y) > Abs(x) THEN 90 - base ELSE base
             deg == IF x >= 0 /\ y >= 0 THEN first
                    ELSE IF x < 0 /\ y >= 0 THEN 180 - first
                    ELSE IF x < 0 THEN 180 + first
                    ELSE 360 - first
         IN deg % 360

\* A variant that leaves the difference as it is
NoWrap(d) == d

\* A variant that wraps the difference into [0, 360)
WrapFull(d) == d % 360

\* ((d + 180) % 360) - 180
WrapAngle(d) == IF IsNaN(d) THEN NaN ELSE ((d + 180) % 360) - 180

FSub(a, b) == IF IsNaN(a) \/ IsNaN(b) THEN NaN ELSE a - b

\* A variant whose first difference is 0
DiffFromZero(s) == [i \in 1..Len(s) |-> IF i = 1 THEN 0 ELSE FSub(s[i], s[i - 1])]

\* Series.diff()
Diff(s) == [i \in 1..Len(s) |-> IF i = 1 THEN NaN ELSE FSub(s[i], s[i - 1])]

\* Series / FRAME_INTERVAL, with FRAME_INTERVAL = 0.1
FRAME_RATE == 10

\* A variant that leaves the difference per frame
PerFrame(s) == s

PerSecond(s) == [i \in 1..Len(s) |-> IF IsNaN(s[i]) THEN NaN ELSE s[i] * FRAME_RATE]

\* Series.fillna(0)
FillNa0(s) == [i \in 1..Len(s) |-> IF IsNaN(s[i]) THEN 0 ELSE s[i]]

\* sqrt(a^2 + b^2) of two columns, in the unit of the columns times scale^(1/2)
\* sqrt(n * q^2) to the nearest unit, for an n too large to be multiplied out:
\* q * r + f with r = floor(sqrt(n)) and f the hundredths that still fit
ScaledSqrtFrom(n, q, r, f) ==
    IF q * q * (n - r * r) - 2 * q * r * f - f * f > q * r + f THEN q * r + f + 1
    ELSE q * r + f

ScaledSqrtOf(n, q, r) ==
    ScaledSqrtFrom(n, q, r,
        CHOOSE f \in 0..(q - 1) :
            /\ 2 * q * r * f + f * f <= q * q * (n - r * r)
            /\ 2 * q * r * (f + 1) + (f + 1) * (f + 1) > q * q * (n - r * r))

ScaledSqrt(n, scale) == ScaledSqrtOf(n, FloorSqrt(scale), FloorSqrt(n))

Hypot(a, b, scale) ==
    IF IsNaN(a) \/ IsNaN(b) THEN NaN
    ELSE IF (a * a + b * b) <= 2147483647 \div scale THEN RoundSqrt((a * a + b * b) * scale)
    ELSE ScaledSqrt(a * a + b * b, scale)

-----------------------------------------------------------------------------
(* scipy.ndimage.gaussian_filter1d(input, sigma), truncate = 4.0, mode = 'reflect' *)

KernelScale == 10000

\* exp(-k^2 / (2 sigma^2)) normalised to sum 1, times KernelScale, k = 0..radius,
\* for sigma = 1.0 (smooth_sigma's only value)
GaussKernel(sigma) == <<3990, 2420, 540, 44, 1>>

KernelRadius(sigma) == 4 * sigma

\* mode 'reflect' (d c b a | a b c d | d c b a): the row that position i reads
Reflect(i, n) ==
    LET m == (i - 1) % (2 * n)
    IN IF m < n THEN m + 1 ELSE 2 * n - m

RECURSIVE KernelSum(_, _, _, _, _)
KernelSum(s, w, i, k, r) ==
    IF k > r THEN 0
    ELSE w[Abs(k) + 1] * s[Reflect(i + k, Len(s))] + KernelSum(s, w, i, k + 1, r)

gaussian_filter1d(s, sigma) ==
    [i \in 1..Len(s) |->
        RoundDiv(KernelSum(s, GaussKernel(sigma), i, -KernelRadius(sigma), KernelRadius(sigma)),
                 KernelScale)]

-----------------------------------------------------------------------------
(* FeatureEngineer *)
(* A derived column is computed once and handed on as a parameter of the    *)
(* operator that uses it (the "...Columns", "...Of", "...At" operators).    *)

\* gaussian_filter1d(v.fillna(0)) if len(df) > 3, else v as it is
Smooth(v, sigma) == IF Len(v) > 3 THEN gaussian_filter1d(FillNa0(v), sigma) ELSE v

VelocityColumns(df, dx, dy, vx, vy) ==
    WithColumns(df,
        [dx |-> dx, dy |-> dy, vx |-> vx, vy |-> vy,
         speed_calc |-> [i \in 1..Len(vx) |-> Hypot(vx[i], vy[i], 1)],
         direction_calc |-> [i \in 1..Len(vx) |-> Atan2Deg(vy[i], vx[i])]])

calculate_velocity(df, sigma) ==
    VelocityColumns(df, Diff(df.x), Diff(df.y),
                    Smooth(PerSecond(Diff(df.x)), sigma),
                    Smooth(PerSecond(Diff(df.y)), sigma))

AccelerationColumns(df, dvx, dvy, ax, ay) ==
    WithColumns(df,
        [dvx |-> dvx, dvy |-> dvy, ax |-> ax, ay |-> ay,
         accel_magnitude |-> [i \in 1..Len(ax) |-> Hypot(ax[i], ay[i], 1)]])

calculate_acceleration(df, sigma) ==
    AccelerationColumns(df, Diff(df.vx), Diff(df.vy),
                        Smooth(PerSecond(Diff(df.vx)), sigma),
                        Smooth(PerSecond(Diff(df.vy)), sigma))

\* jx = dax / 0.1 in 0.01 yard/s^3 is dax in 0.1 yard/s^3.  The magnitude is rounded
\* up, so that jerk_magnitude > threshold is decided as on the exact value.
JerkColumns(df, dax, day) ==
    WithColumns(df,
        [dax |-> dax, day |-> day, jx |-> dax, jy |-> day,
         jerk_magnitude |->
            [i \in 1..Len(dax) |-> IF IsNaN(dax[i]) \/ IsNaN(day[i]) THEN NaN
                                   ELSE CeilSqrt(dax[i] * dax[i] + day[i] * day[i])]])

calculate_jerk(df) == JerkColumns(df, Diff(df.ax), Diff(df.ay))

\* Series.cumsum(): a NaN stays NaN and is skipped by the running sum
RECURSIVE CumSum(_, _)
CumSum(s, i) ==
    IF i = 0 THEN 0
    ELSE (IF IsNaN(s[i]) THEN 0 ELSE s[i]) + CumSum(s, i - 1)

\* A variant that does not accumulate
NoCumSum(s) == s

CumSumSeries(s) == [i \in 1..Len(s) |-> IF IsNaN(s[i]) THEN NaN ELSE CumSum(s, i)]

DistScale == 10000

PathLengthEps == 1000

CurvatureEps == 100

\* sqrt(x.diff()**2 + y.diff()**2)
FrameDist(x, y) == [i \in 1..Len(x) |-> Hypot(Diff(x)[i], Diff(y)[i], DistScale)]

\* A variant that measures the displacement along x only
StraightAlongX(x, y) == [i \in 1..Len(x) |-> Hypot(x[i] - x[1], 0, DistScale)]

\* sqrt((x - start_x)**2 + (y - start_y)**2)
StraightLine(x, y) == [i \in 1..Len(x) |-> Hypot(x[i] - x[1], y[i] - y[1], DistScale)]

\* A variant that takes the ratio from a path length of 0.1 on
PathEfficiencyFromTenth(straight, path_length) ==
    [i \in 1..Len(straight) |->
        IF ~IsNaN(path_length[i]) /\ path_length[i] >= PathLengthEps
        THEN RoundDiv(straight[i] * 10000, path_length[i])
        ELSE 10000]

\* np.where(path_length > 0.1, straight_line_dist / path_length, 1.0)
PathEfficiency(straight, path_length) ==
    [i \in 1..Len(straight) |->
        IF Gt(path_length[i], PathLengthEps)
        THEN RoundDiv(straight[i] * 10000, path_length[i])
        ELSE 10000]

\* abs(((direction.diff() + 180) % 360) - 180) / (frame_dist + 0.01)
Curvature(direction, frame_dist) ==
    [i \in 1..Len(direction) |->
        IF IsNaN(Diff(direction)[i]) \/ IsNaN(frame_dist[i]) THEN NaN
        ELSE RoundDiv(Abs(WrapAngle(Diff(direction)[i])) * 1000000,
                      frame_dist[i] + CurvatureEps)]

PathColumns(df, frame_dist, path_length, straight) ==
    WithColumns(df,
        [frame_dist |-> frame_dist, path_length |-> path_length,
         straight_line_dist |-> straight,
         path_efficiency |-> PathEfficiency(straight, path_length),
         curvature |-> IF HasColumn(df, "direction_calc")
                       THEN Curvature(df.direction_calc, frame_dist)
                       ELSE Const(Len(straight), 0)])

PathColumnsOf(df, frame_dist) ==
    PathColumns(df, frame_dist, CumSumSeries(frame_dist), StraightLine(df.x, df.y))

\* A variant without the branch for fewer than 2 samples
PathMetricsUnguarded(df) == PathColumnsOf(df, FrameDist(df.x, df.y))

calculate_path_metrics(df) ==
    IF DfLen(df) < 2
    THEN WithColumns(df,
           [path_length |-> Const(DfLen(df), 0), straight_line_dist |-> Const(DfLen(df), 0),
            path_efficiency |-> Const(DfLen(df), 10000), curvature |-> Const(DfLen(df), 0)])
    ELSE PathColumnsOf(df, FrameDist(df.x, df.y))

process_player_tracking(df, sigma) ==
    calculate_path_metrics(
        calculate_jerk(
            calculate_acceleration(
                calculate_velocity(sort_values(df), sigma), sigma)))

\* The scan of detect_reaction_frame: the first i with above[i .. i+min_frames-1] all true
\* A variant that accepts a window cut short by the end of the series
ScanShort(above, frames, min_frames, i) ==
    IF \E j \in i..Len(above) :
          \A k \in j..MinOf(Len(above), j + min_frames - 1) : above[k]
    THEN Some(frames[CHOOSE j \in i..Len(above) :
                        /\ \A k \in j..MinOf(Len(above), j + min_frames - 1) : above[k]
                        /\ \A h \in i..(j - 1) :
                             \E k \in h..MinOf(Len(above), h + min_frames - 1) : ~above[k]])
    ELSE None

RECURSIVE ScanAbove(_, _, _, _)
ScanAbove(above, frames, min_frames, i) ==
    IF i > Len(above) - min_frames + 1 THEN None
    ELSE IF \A k \in i..(i + min_frames - 1) : above[k] THEN Some(frames[i])
    ELSE ScanAbove(above, frames, min_frames, i + 1)

\* A variant that counts a sample equal to the threshold
AtOrAboveThresh(jerk, threshold) ==
    [i \in 1..Len(jerk) |-> ~IsNaN(jerk[i]) /\ jerk[i] >= threshold]

\* above_thresh = jerk > threshold
AboveThresh(jerk, threshold) == [i \in 1..Len(jerk) |-> Gt(jerk[i], threshold)]

DetectOf(df, threshold, min_frames) ==
    ScanAbove(AboveThresh(df.jerk_magnitude, threshold), df.frame_id, min_frames, 1)

detect_reaction_frame(df, threshold, min_frames) ==
    DetectOf(IF HasColumn(df, "jerk_magnitude") THEN df
             ELSE process_player_tracking(df, smooth_sigma),
             threshold, min_frames)

\* Sum and count of the non-NaN values of s[lo..hi]  (Series.dropna().mean())
RECURSIVE SumOver(_, _, _)
SumOver(s, lo, hi) ==
    IF lo > hi THEN 0
    ELSE (IF IsNaN(s[lo]) THEN 0 ELSE s[lo]) + SumOver(s, lo + 1, hi)

CountOver(s, lo, hi) == Cardinality({i \in lo..hi : ~IsNaN(s[i])})

NEUTRAL == 5000

BREAK_WINDOW == 3

\* Series.dropna().idxmax(): the first row holding the largest defined value
IdxMax(s) ==
    CHOOSE i \in 1..Len(s) :
        /\ ~IsNaN(s[i])
        /\ \A j \in 1..Len(s) : IsNaN(s[j]) \/ s[j] <= s[i]
        /\ \A j \in 1..(i - 1) : IsNaN(s[j]) \/ s[j] < s[i]

\* The rows whose frame_id is break_frame
RowsOfFrame(frames, break_frame) == {i \in 1..Len(frames) : Some(frames[i]) = break_frame}

BreakRow(df, break_frame) ==
    IF break_frame = None THEN IdxMax(df.curvature)
    ELSE CHOOSE i \in RowsOfFrame(df.frame_id, break_frame) :
            \A j \in RowsOfFrame(df.frame_id, break_frame) : i <= j

\* 0.5 if pre_speed < 0.1, else min(post_speed / (pre_speed + 0.1), 1.0), the speeds
\* being the means preSum / preN and postSum / postN (0.0 of no rows)
SpeedMaintenance(preSum, preN, postSum, postN) ==
    IF preN = 0 \/ preSum < 10 * preN THEN NEUTRAL
    ELSE IF postN = 0 THEN 0
    ELSE MinOf(RoundDiv(postSum * preN * 10000, postN * (preSum + 10 * preN)), 10000)

\* A variant in which a missing curvature counts 0.5
CurvatureScoreNeutral(curvature) ==
    IF IsNaN(curvature) THEN NEUTRAL ELSE MinOf(2 * curvature, 10000)

\* min(curvature / 50, 1.0), a NaN curvature counting 0.0
CurvatureScore(curvature) == MinOf(2 * (IF IsNaN(curvature) THEN 0 ELSE curvature), 10000)

BreakQualityAt(df, pos) ==
    RoundDiv(6 * SpeedMaintenance(
                    SumOver(df.speed_calc, MaxOf(1, pos - BREAK_WINDOW), pos - 1),
                    CountOver(df.speed_calc, MaxOf(1, pos - BREAK_WINDOW), pos - 1),
                    SumOver(df.speed_calc, pos, MinOf(DfLen(df), pos + BREAK_WINDOW)),
                    CountOver(df.speed_calc, pos, MinOf(DfLen(df), pos + BREAK_WINDOW)))
             + 4 * CurvatureScore(df.curvature[pos]), 10)

BreakQualityOf(df, break_frame) ==
    IF DfLen(df) < 3 THEN NEUTRAL
    ELSE IF \A i \in 1..DfLen(df) : IsNaN(df.curvature[i]) THEN NEUTRAL
    ELSE IF break_frame # None /\ RowsOfFrame(df.frame_id, break_frame) = {} THEN NEUTRAL
    ELSE BreakQualityAt(df, BreakRow(df, break_frame))

calculate_break_quality(df, break_frame) ==
    BreakQualityOf(IF HasColumn(df, "curvature") THEN df
                   ELSE process_player_tracking(df, smooth_sigma),
                   break_frame)

\* A variant that pairs the rows by position, without a merge on frame_id
PairByPosition(f1, f2, i, j) == [k \in 1..MinOf(Len(f1), Len(f2)) |-> <<k, k>>]

\* A pair of matching rows per common frame_id, in the order of the left table
RECURSIVE MergePairs(_, _, _, _)
MergePairs(f1, f2, i, j) ==
    IF i > Len(f1) THEN <<>>
    ELSE IF j > Len(f2) THEN MergePairs(f1, f2, i + 1, 1)
    ELSE (IF f1[i] = f2[j] THEN <<(<<i, j>>)>> ELSE <<>>) \o MergePairs(f1, f2, i, j + 1)

SeparationOf(df1, df2, pairs) ==
    [frame_id |-> [k \in 1..Len(pairs) |-> df1.frame_id[pairs[k][1]]],
     separation |-> [k \in 1..Len(pairs) |->
         Hypot(df1.x[pairs[k][1]] - df2.x[pairs[k][2]],
               df1.y[pairs[k][1]] - df2.y[pairs[k][2]], DistScale)]]

calculate_player_separation(df1, df2) ==
    SeparationOf(df1, df2, MergePairs(df1.frame_id, df2.frame_id, 1, 1))

-----------------------------------------------------------------------------
(* RAICalculator *)

RtdOf(reaction_frame, player_df) ==
    IF reaction_frame = None THEN DfLen(player_df)
    ELSE TheValue(reaction_frame)

\* A variant that ignores the role and takes the 'default' threshold
RtdDefaultThreshold(player_df, player_role) ==
    RtdOf(detect_reaction_frame(player_df, JERK_THRESHOLDS["default"], 2), player_df)

calculate_rtd(player_df, player_role) ==
    RtdOf(detect_reaction_frame(player_df,
              DictGet(JERK_THRESHOLDS, player_role, JERK_THRESHOLDS["default"]), 2),
          player_df)

\* np.clip(v, 0.0, 1.0)
Clip01(v) == IF IsNaN(v) THEN NaN ELSE MaxOf(0, MinOf(v, 10000))

\* A variant that reads the first sample instead of the last
TeOfFirst(player_df) == Clip01(Head(player_df.path_efficiency))

\* Series.iloc[-1]
ILocLast(s) == Head(SubSeq(s, Len(s), Len(s)))

\* path_efficiency.iloc[-1], clipped
TeOf(player_df) == Clip01(ILocLast(player_df.path_efficiency))

calculate_te(player_df) ==
    TeOf(IF HasColumn(player_df, "path_efficiency") THEN player_df
         ELSE process_player_tracking(player_df, smooth_sigma))

calculate_bpq(player_df) == calculate_break_quality(player_df, None)

\* ((ideal_direction - actual_direction + 180) % 360 - 180).abs(), the ideal direction
\* being degrees(arctan2(ball_y - y, ball_x - x)) % 360
AbsDiff(df, ball_x, ball_y) ==
    [i \in 1..DfLen(df) |->
        IF IsNaN(df.direction_calc[i]) THEN NaN
        ELSE Abs(WrapAngle(Atan2Deg(ball_y - df.y[i], ball_x - df.x[i])
                           - df.direction_calc[i]))]

\* 1 - mean / 180, clipped; the mean skips NaN
CmsOf(absdiff) ==
    IF CountOver(absdiff, 1, Len(absdiff)) = 0 THEN NaN
    ELSE Clip01(10000 - RoundDiv(SumOver(absdiff, 1, Len(absdiff)) * 10000,
                                 180 * CountOver(absdiff, 1, Len(absdiff))))

CmsOn(df, ball_trajectory) ==
    IF DfLen(df) < 3 THEN NEUTRAL
    ELSE CmsOf(AbsDiff(df, ball_trajectory[1], ball_trajectory[2]))

calculate_cms(defender_df, ball_trajectory) ==
    CmsOn(IF HasColumn(defender_df, "direction_calc") THEN defender_df
          ELSE process_player_tracking(defender_df, smooth_sigma),
          ball_trajectory)

\* A variant that subtracts the final separation from the initial one
SdOfReversed(separation) ==
    IF Len(separation) < 2 THEN 0
    ELSE separation[1] - separation[Len(separation)]

SdOf(separation) ==
    IF Len(separation) < 2 THEN 0
    ELSE separation[Len(separation)] - separation[1]

calculate_sd(receiver_df, defender_df) ==
    SdOf(calculate_player_separation(receiver_df, defender_df).separation)

\* A variant that scales without centring on the mean
NormalizeUncentred(value, component) ==
    value * (ZScale \div DictGet(NORMS, component, [mean |-> 0, std |-> 1]).std)

NormalizeWith(value, norm) == (value - norm.mean) * (ZScale \div norm.std)

normalize_component(value, component) ==
    NormalizeWith(value, DictGet(NORMS, component, [mean |-> 0, std |-> 1]))

\* A variant that weighs every component by the magnitude of its weight
RECURSIVE CompositeLoopAbs(_, _, _)
CompositeLoopAbs(weights, components, k) ==
    IF k > Len(Components) THEN 0
    ELSE (IF Components[k] \in DOMAIN weights /\ Components[k] \in DOMAIN components
          THEN Abs(weights[Components[k]])
               * normalize_component(components[Components[k]], Components[k])
          ELSE 0)
         + CompositeLoopAbs(weights, components, k + 1)

\* for component, weight in weights.items(): if component in components: rai += ...
RECURSIVE CompositeLoop(_, _, _)
CompositeLoop(weights, components, k) ==
    IF k > Len(Components) THEN 0
    ELSE (IF Components[k] \in DOMAIN weights /\ Components[k] \in DOMAIN components
          THEN weights[Components[k]]
               * normalize_component(components[Components[k]], Components[k])
          ELSE 0)
         + CompositeLoop(weights, components, k + 1)

\* A variant without the fallback: a role outside the table has no weights
CompositeNoFallback(components, player_role) ==
    CompositeLoop(DictGet(ROLE_WEIGHTS, player_role, <<>>), components, 1)

calculate_composite_rai(components, player_role) ==
    CompositeLoop(DictGet(ROLE_WEIGHTS, player_role, ROLE_WEIGHTS["default"]), components, 1)

RouteRoles == {"Pass Route", "Targeted Receiver"}

\* RAIComponents(...).to_dict()
RAIComponents(rtd, te, bpq, cms, sd, player_role, nfl_id) ==
    [rtd |-> rtd, te |-> te, bpq |-> bpq, cms |-> cms, sd |-> sd,
     rai |-> calculate_composite_rai(
                 [rtd |-> rtd, te |-> te, bpq |-> bpq, cms |-> cms, sd |-> sd], player_role),
     player_role |-> player_role, nfl_id |-> nfl_id]

\* The scorers calculate_player_rai calls besides calculate_rtd and calculate_te
Invoked(player_role, closest_opponent_df) ==
    (IF player_role \in RouteRoles THEN {"calculate_bpq"} ELSE {})
    \cup (IF player_role = "Defensive Coverage" THEN {"calculate_cms"} ELSE {})
    \cup (IF closest_opponent_df # None THEN {"calculate_sd"} ELSE {})

\* A variant that runs the break-quality and coverage scorers for every role
ScoreEveryRole(player_output, player_role, nfl_id, ball_x, ball_y, closest_opponent_df) ==
    [raised |-> "none",
     value |-> RAIComponents(
         calculate_rtd(player_output, player_role),
         calculate_te(player_output),
         calculate_bpq(player_output),
         calculate_cms(player_output, <<ball_x, ball_y>>),
         IF closest_opponent_df # None
             THEN calculate_sd(player_output, TheValue(closest_opponent_df)) ELSE 0,
         player_role, nfl_id),
     invoked |-> {"calculate_bpq", "calculate_cms"}]

\* calculate_player_rai from the processed series on
ScorePlayer(player_output, player_role, nfl_id, ball_x, ball_y, closest_opponent_df) ==
    [raised |-> "none",
     value |-> RAIComponents(
         calculate_rtd(player_output, player_role),
         calculate_te(player_output),
         IF player_role \in RouteRoles THEN calculate_bpq(player_output) ELSE NEUTRAL,
         IF player_role = "Defensive Coverage"
             THEN calculate_cms(player_output, <<ball_x, ball_y>>) ELSE NEUTRAL,
         IF closest_opponent_df # None
             THEN calculate_sd(player_output, TheValue(closest_opponent_df)) ELSE 0,
         player_role, nfl_id),
     invoked |-> Invoked(player_role, closest_opponent_df)]

\* calculate_player_rai from the entity's rows on
PlayerRaiOf(player_input, player_output, nfl_id, ball_x, ball_y, closest_opponent_df) ==
    IF DfLen(player_output) = 0
    THEN [raised |-> "ValueError", value |-> None, invoked |-> {}]
    ELSE IF HasColumn(player_input, "player_role") /\ Len(player_input.player_role) = 0
    THEN [raised |-> "IndexError", value |-> None, invoked |-> {}]
    ELSE ScorePlayer(process_player_tracking(player_output, smooth_sigma),
                     IF HasColumn(player_input, "player_role")
                         THEN player_input.player_role[1] ELSE "default",
                     nfl_id, ball_x, ball_y, closest_opponent_df)

\* A variant that compares the entity with the rows of the other entities of the play
PlayerRaiAgainstOthers(input_df, output_df, nfl_id, ball_x, ball_y, closest_opponent_df) ==
    PlayerRaiOf(FilterEq(input_df, "nfl_id", nfl_id),
                sort_values(FilterEq(output_df, "nfl_id", nfl_id)),
                nfl_id, ball_x, ball_y,
                Some(Take(output_df, RowsOf(DfLen(output_df),
                                            {i \in 1..DfLen(output_df) :
                                                output_df.nfl_id[i] # nfl_id}))))

calculate_player_rai(input_df, output_df, nfl_id, ball_x, ball_y, closest_opponent_df) ==
    PlayerRaiOf(FilterEq(input_df, "nfl_id", nfl_id),
                sort_values(FilterEq(output_df, "nfl_id", nfl_id)),
                nfl_id, ball_x, ball_y, closest_opponent_df)

\* A variant that gives the distinct values in ascending order
UniqueSorted(s, i) ==
    [p \in 1..Cardinality({s[k] : k \in 1..i}) |->
        CHOOSE v \in {s[k] : k \in 1..i} :
            Cardinality({w \in {s[k] : k \in 1..i} : w <= v}) = p]

\* Series.unique(): the distinct values in order of first appearance
RECURSIVE Unique(_, _)
Unique(s, i) ==
    IF i = 0 THEN <<>>
    ELSE IF \E k \in 1..(i - 1) : s[k] = s[i] THEN Unique(s, i - 1)
    ELSE Append(Unique(s, i - 1), s[i])

\* A variant whose except branch appends a row all the same
AppendAlways(rai_result) == <<rai_result.value>>

\* results.append(rai_result.to_dict()) unless the call raised
RowsOfResult(rai_result) == IF rai_result.raised = "none" THEN <<rai_result.value>> ELSE <<>>

RECURSIVE PlayLoop(_, _, _, _, _, _)
PlayLoop(input_df, output_df, ball_x, ball_y, player_ids, k) ==
    IF k > Len(player_ids) THEN <<>>
    ELSE RowsOfResult(calculate_player_rai(input_df, output_df, player_ids[k],
                                           ball_x, ball_y, None))
         \o PlayLoop(input_df, output_df, ball_x, ball_y, player_ids, k + 1)

\* A variant that builds the table with pd.concat, which raises on no rows
ConcatResult(results) ==
    IF Len(results) = 0 THEN [raised |-> "ValueError", value |-> None]
    ELSE [raised |-> "none", value |-> results]

\* return pd.DataFrame(results)
PlayResult(results) == [raised |-> "none", value |-> results]

calculate_play_rai(input_df, output_df, ball_x, ball_y) ==
    PlayResult(PlayLoop(input_df, output_df, ball_x, ball_y,
                        Unique(output_df.nfl_id, Len(output_df.nfl_id)), 1))

\* play_rai['game_id'] = game_id; play_rai['play_id'] = play_id
TagRows(rows, game_id, play_id) ==
    [i \in 1..Len(rows) |-> rows[i] @@ [game_id |-> game_id, play_id |-> play_id]]

\* One pass of the loop of calculate_all_rai: the tables it appends to all_results.
\* A play is [game_id, play_id, ball_land_x, ball_land_y] of the plays table with
\* what get_play_tracking gives for it: raises, or input_play and output_play
ScorePlay(play) ==
    IF play.raises THEN <<>>
    ELSE IF DfLen(play.output_play) = 0 THEN <<>>
    ELSE LET play_rai == calculate_play_rai(play.input_play, play.output_play,
                                            play.ball_land_x, play.ball_land_y)
         IN IF play_rai.raised # "none" THEN <<>>
            ELSE <<TagRows(play_rai.value, play.game_id, play.play_id)>>

RECURSIVE AllResults(_, _)
AllResults(plays, k) ==
    IF k > Len(plays) THEN <<>>
    ELSE ScorePlay(plays[k]) \o AllResults(plays, k + 1)

RECURSIVE RowsOfAll(_)
RowsOfAll(tables) ==
    IF Len(tables) = 0 THEN <<>> ELSE Head(tables) \o RowsOfAll(Tail(tables))

\* pd.concat(all_results, ignore_index=True): raises on an empty list
ConcatPlays(all_results) ==
    IF Len(all_results) = 0 THEN [raised |-> "ValueError", value |-> None]
    ELSE [raised |-> "none", value |-> RowsOfAll(all_results)]

\* The summary printed after the concat reads rai_results['nfl_id'], a column
\* that a table built of empty play tables only does not have
SummaryOf(table) == IF Len(table) = 0 THEN "KeyError" ELSE "none"

\* The outcome of calculate_all_rai and the value it leaves in self.rai_results
AllRaiOutcome(concat, before) ==
    IF concat.raised # "none" THEN [raised |-> concat.raised, rai_results |-> before]
    ELSE [raised |-> SummaryOf(concat.value), rai_results |-> Some(concat.value)]

calculate_all_rai(plays, before) == AllRaiOutcome(ConcatPlays(AllResults(plays, 1)), before)

-----------------------------------------------------------------------------
(* Inputs *)

\* frame_id of n consecutive frames from f0
Frames(n, f0) == [i \in 1..n |-> f0 + i - 1]

\* Jerk samples given directly: undefined, below, at and above the thresholds used
JerkVals == {NaN, 50, 80, 90}

DirectThresholds == {50, 80}

\* Jerk samples around every threshold of JERK_THRESHOLDS (5.0, 6.0, 8.0, 10.0, 12.0)
RtdJerkVals == {NaN, 50, 60, 80, 100, 120, 130}

\* A processed series reduced to the columns the detector reads
JerkDf(jerk, f0) == [frame_id |-> Frames(Len(jerk), f0), jerk_magnitude |-> jerk]

\* Frame-to-frame displacements: at rest, a slow step along x, a fast step along y
StepSet == {<<0, 0>>, <<6, 0>>, <<0, 30>>}

RECURSIVE PathFrom(_, _, _)
PathFrom(start, steps, axis) ==
    IF Len(steps) = 0 THEN <<start>>
    ELSE LET before == PathFrom(start, SubSeq(steps, 1, Len(steps) - 1), axis)
         IN Append(before, before[Len(before)] + steps[Len(steps)][axis])

\* The raw tracking rows of one entity: n = Len(steps) + 1 frames from f0
RawDf(nfl_id, f0, start, steps) ==
    [nfl_id |-> Const(Len(steps) + 1, nfl_id),
     frame_id |-> Frames(Len(steps) + 1, f0),
     x |-> PathFrom(start[1], steps, 1),
     y |-> PathFrom(start[2], steps, 2)]

EmptyDf == [nfl_id |-> <<>>, frame_id |-> <<>>, x |-> <<>>, y |-> <<>>]

\* pd.concat([a, b]) of two tables with the same columns
Concat(a, b) == [c \in DOMAIN a |-> a[c] \o b[c]]

\* Raw series of 0..MaxFrames frames
RawSeries(nfl_id, f0) ==
    {EmptyDf} \cup
    UNION {{RawDf(nfl_id, f0, <<0, 0>>, steps) : steps \in [1..(n - 1) -> StepSet]} :
              n \in 1..MaxFrames}

\* The pre-event rows of one entity
InputRows(nfl_id, role) ==
    [nfl_id |-> <<nfl_id>>, frame_id |-> <<1>>, player_role |-> <<role>>]

EmptyInput == [nfl_id |-> <<>>, frame_id |-> <<>>, player_role |-> <<>>]

\* df.drop(columns=[col])
DropColumn(df, col) == [c \in (DOMAIN df) \ {col} |-> df[c]]

BallPoints == {<<100, 0>>, <<-50, 50>>}

\* A second entity, one yard off, walking along x
OpponentDf == RawDf(99, 1, <<100, 0>>, <<(<<6, 0>>), (<<6, 0>>)>>)

-----------------------------------------------------------------------------
(* The state machine: a caller that makes one call after another *)

Init ==
    /\ ROLE_WEIGHTS = RoleWeightsTable
    /\ NORMS = NormsTable
    /\ JERK_THRESHOLDS = JerkThresholdsTable
    /\ smooth_sigma = 1
    /\ pc = "idle"
    /\ op = "none"
    /\ args = <<>>
    /\ ret = [raised |-> "none", value |-> None]
    /\ trace = {}
    /\ rai_results = None

\* A variant of a call that leaves every jerk threshold at 0
ReturnsRetuned(name, a, r, t) ==
    /\ pc' = "done"
    /\ op' = name
    /\ args' = a
    /\ ret' = r
    /\ trace' = t
    /\ JERK_THRESHOLDS' = [role \in DOMAIN JERK_THRESHOLDS |-> 0]
    /\ UNCHANGED <<ROLE_WEIGHTS, NORMS, smooth_sigma, rai_results>>

Returns(name, a, r, t) ==
    /\ pc' = "done"
    /\ op' = name
    /\ args' = a
    /\ ret' = r
    /\ trace' = t
    /\ UNCHANGED <<cfgvars, rai_results>>

DetectReactionFrame ==
    /\ pc = "idle"
    /\ \E n \in 0..MaxLen, f0 \in 1..MaxFrameStart, threshold \in DirectThresholds,
          min_frames \in 1..MaxMinFrames :
         \E jerk \in [1..n -> JerkVals] :
           LET df == JerkDf(jerk, f0)
           IN Returns("detect_reaction_frame",
                      [df |-> df, threshold |-> threshold, min_frames |-> min_frames],
                      [raised |-> "none",
                       value |-> detect_reaction_frame(df, threshold, min_frames)], {})

\* The detector on a table without jerk_magnitude: it derives the features first
DetectReactionFrameRaw ==
    /\ pc = "idle"
    /\ \E f0 \in 1..MaxFrameStart, threshold \in DirectThresholds, min_frames \in 1..MaxMinFrames :
         \E df \in RawSeries(1, f0) :
           Returns("detect_reaction_frame",
                   [df |-> df, threshold |-> threshold, min_frames |-> min_frames],
                   [raised |-> "none",
                    value |-> detect_reaction_frame(df, threshold, min_frames)], {})

CalculateRtd ==
    /\ pc = "idle"
    /\ \E n \in 0..MaxRtdLen, f0 \in 1..MaxFrameStart, player_role \in Roles :
         \E jerk \in [1..n -> RtdJerkVals] :
           LET df == JerkDf(jerk, f0)
           IN Returns("calculate_rtd",
                      [player_df |-> df, player_role |-> player_role],
                      [raised |-> "none", value |-> calculate_rtd(df, player_role)], {})

\* The values a caller passes for a component: its population mean and steps off it
ComponentStep == [rtd |-> 1, te |-> 500, bpq |-> 1500, cms |-> 2500, sd |-> 20000]

ComponentVals(c) == {NormsTable[c].mean + k * ComponentStep[c] : k \in (-MaxDev)..MaxDev}

\* The dict of the components given: pick[c] = NaN stands for a key left out
ComponentsDict(pick) == [c \in {k \in ComponentSet : ~IsNaN(pick[k])} |-> pick[c]]

CalculateCompositeRai ==
    /\ pc = "idle"
    /\ \E player_role \in Roles :
         \E rtd \in ComponentVals("rtd") \cup {NaN}, te \in ComponentVals("te") \cup {NaN},
            bpq \in ComponentVals("bpq") \cup {NaN}, cms \in ComponentVals("cms") \cup {NaN},
            sd \in ComponentVals("sd") \cup {NaN} :
           LET components == ComponentsDict([rtd |-> rtd, te |-> te, bpq |-> bpq,
                                             cms |-> cms, sd |-> sd])
           IN Returns("calculate_composite_rai",
                      [components |-> components, player_role |-> player_role],
                      [raised |-> "none",
                       value |-> calculate_composite_rai(components, player_role)], {})

\* The pre-event table of a call for entity 1: a row with a role, no row of the
\* entity, or a table without the player_role column
InputTables ==
    {Concat(InputRows(1, role), InputRows(99, "Passer")) : role \in Roles}
    \cup {InputRows(99, "Passer")}
    \cup {DropColumn(Concat(InputRows(1, "Pass Route"), InputRows(99, "Passer")), "player_role")}

CalculatePlayerRai ==
    /\ pc = "idle"
    /\ \E input_df \in InputTables, ball \in BallPoints,
          closest_opponent_df \in {None, Some(OpponentDf)} :
         \E mine \in RawSeries(1, 1) :
           LET output_df == Concat(mine, OpponentDf)
               r == calculate_player_rai(input_df, output_df, 1, ball[1], ball[2],
                                         closest_opponent_df)
           IN Returns("calculate_player_rai",
                      [input_df |-> input_df, output_df |-> output_df, nfl_id |-> 1,
                       ball_land_x |-> ball[1], ball_land_y |-> ball[2],
                       closest_opponent_df |-> closest_opponent_df],
                      [raised |-> r.raised, value |-> r.value], r.invoked)

\* What a play holds of one entity after the event: nothing, one frame, a run
PlaySeries(nfl_id) ==
    <<EmptyDf,
      RawDf(nfl_id, 1, <<0, 0>>, <<>>),
      RawDf(nfl_id, 1, <<0, 0>>, <<(<<6, 0>>), (<<0, 30>>), (<<0, 30>>)>>)>>

\* ... and before it: no row, or a row with its role
PlayInputs(nfl_id) ==
    <<EmptyInput,
      InputRows(nfl_id, "Defensive Coverage"),
      InputRows(nfl_id, "Targeted Receiver")>>

\* pd.concat of the tables picked for the entities, in the order given
RECURSIVE ConcatAll(_, _, _, _)
ConcatAll(tables, pick, order, empty) ==
    IF Len(order) = 0 THEN empty
    ELSE Concat(tables[order[1]][pick[order[1]]],
                ConcatAll(tables, pick, Tail(order), empty))

\* The entities of a play in ascending or descending order of their rows
PlayOrders(n) == {[i \in 1..n |-> i], [i \in 1..n |-> n + 1 - i]}

CalculatePlayRai ==
    /\ pc = "idle"
    /\ \E n \in 1..MaxPlayers, ball \in BallPoints :
         \E outs \in [1..n -> 1..3], ins \in [1..n -> 1..3], order \in PlayOrders(n) :
           LET output_df == ConcatAll([i \in 1..n |-> PlaySeries(i)], outs, order, EmptyDf)
               input_df == ConcatAll([i \in 1..n |-> PlayInputs(i)], ins, order, EmptyInput)
           IN Returns("calculate_play_rai",
                      [input_df |-> input_df, output_df |-> output_df,
                       ball_land_x |-> ball[1], ball_land_y |-> ball[2]],
                      calculate_play_rai(input_df, output_df, ball[1], ball[2]), {})

\* The orders in which the n rows of a series can come
RowOrders(n) == {order \in [1..n -> 1..n] : \A i, j \in 1..n : i # j => order[i] # order[j]}

\* FeatureEngineer.process_player_tracking on the rows of one entity in any order
ProcessPlayerTracking ==
    /\ pc = "idle"
    /\ \E series \in RawSeries(1, 1) :
         \E order \in RowOrders(DfLen(series)) :
           LET df == Take(series, order)
           IN Returns("process_player_tracking", [df |-> df],
                      [raised |-> "none", value |-> process_player_tracking(df, smooth_sigma)],
                      {})

\* What the loader gives for a play: it raises; nothing after the event; an entity
\* without a pre-event row; an entity with one frame; an entity with a run of frames
BatchPlay(k, kind) ==
    [game_id |-> 1, play_id |-> k, ball_land_x |-> 100, ball_land_y |-> 0,
     raises |-> (kind = 1),
     input_play |-> IF kind = 3 THEN InputRows(2, "Defensive Coverage")
                    ELSE InputRows(1, "Defensive Coverage"),
     output_play |-> IF kind \in {1, 2} THEN EmptyDf
                     ELSE IF kind \in {3, 4} THEN PlaySeries(1)[2]
                     ELSE PlaySeries(1)[3]]

PlayKinds == 1..5

\* RAIAnalysis.calculate_all_rai over a batch of 0..MaxPlays plays
CalculateAllRai ==
    /\ pc = "idle"
    /\ \E n \in 0..MaxPlays :
         \E kinds \in [1..n -> PlayKinds] :
           LET plays == [k \in 1..n |-> BatchPlay(k, kinds[k])]
               r == calculate_all_rai(plays, rai_results)
           IN /\ pc' = "done"
              /\ op' = "calculate_all_rai"
              /\ args' = [plays |-> plays]
              /\ ret' = [raised |-> r.raised, value |-> None]
              /\ trace' = {}
              /\ rai_results' = r.rai_results
              /\ UNCHANGED cfgvars

\* The pre-event rows of one entity: none, one, or two of different roles
RoleInputs(nfl_id) ==
    <<EmptyInput,
      InputRows(nfl_id, "Pass Route"),
      Concat(InputRows(nfl_id, "Targeted Receiver"), InputRows(nfl_id, "Defensive Coverage")),
      Concat(InputRows(nfl_id, "Defensive Coverage"), InputRows(nfl_id, "Targeted Receiver"))>>

\* calculate_play_rai on plays whose entities have up to two pre-event rows
CalculatePlayRaiRoles ==
    /\ pc = "idle"
    /\ \E n \in 1..MaxPlayers :
         \E outs \in [1..n -> 1..3], ins \in [1..n -> 1..4],
            before \in PlayOrders(n), after \in PlayOrders(n) :
           LET output_df == ConcatAll([i \in 1..n |-> PlaySeries(i)], outs, after, EmptyDf)
               input_df == ConcatAll([i \in 1..n |-> RoleInputs(i)], ins, before, EmptyInput)
           IN Returns("calculate_play_rai",
                      [input_df |-> input_df, output_df |-> output_df,
                       ball_land_x |-> 100, ball_land_y |-> 0],
                      calculate_play_rai(input_df, output_df, 100, 0), {})

\* The frames of order, in that order, at which pick holds a position
RECURSIVE PresentFrames(_, _)
PresentFrames(pick, order) ==
    IF Len(order) = 0 THEN <<>>
    ELSE (IF IsNaN(pick[order[1]]) THEN <<>> ELSE <<order[1]>>)
         \o PresentFrames(pick, Tail(order))

\* The rows of one entity on the line y: at frame f it stands at x = pick[f], and
\* has no row at f if pick[f] = NaN; the rows come in the order of the frames given
SdTableOf(nfl_id, frames, pick, y) ==
    [nfl_id |-> Const(Len(frames), nfl_id),
     frame_id |-> frames,
     x |-> [i \in 1..Len(frames) |-> pick[frames[i]]],
     y |-> Const(Len(frames), y)]

SdTable(nfl_id, pick, order, y) == SdTableOf(nfl_id, PresentFrames(pick, order), pick, y)

\* The frames of the window in ascending and in descending order
FrameOrders == {[i \in 1..MaxSdFrames |-> i], [i \in 1..MaxSdFrames |-> MaxSdFrames + 1 - i]}

\* Positions along x of the receiver and of the defender, one yard apart in y
ReceiverXs == {0, 100, 200}

DefenderXs == {0, 100}

CalculateSd ==
    /\ pc = "idle"
    /\ \E pick1 \in [1..MaxSdFrames -> ReceiverXs \cup {NaN}],
          pick2 \in [1..MaxSdFrames -> DefenderXs \cup {NaN}],
          order1 \in FrameOrders, order2 \in FrameOrders :
         LET receiver_df == SdTable(1, pick1, order1, 0)
             defender_df == SdTable(2, pick2, order2, 100)
         IN Returns("calculate_sd",
                    [receiver_df |-> receiver_df, defender_df |-> defender_df],
                    [raised |-> "none", value |-> calculate_sd(receiver_df, defender_df)],
                    {})

\* Frame-to-frame displacements of a path: at rest, a twentieth of a yard either way
\* along x or along y, a yard along x or along y
PathSteps == {<<0, 0>>, <<5, 0>>, <<-5, 0>>, <<0, 5>>, <<100, 0>>, <<0, 100>>}

\* Position series of 0..MaxPathLen samples over the displacements given
PathSeries(steps) ==
    {EmptyDf} \cup
    UNION {{RawDf(1, 1, <<0, 0>>, st) : st \in [1..(n - 1) -> steps]} : n \in 1..MaxPathLen}

CalculatePathMetrics ==
    /\ pc = "idle"
    /\ \E df \in PathSeries(PathSteps) :
         Returns("calculate_path_metrics", [df |-> df],
                 [raised |-> "none", value |-> calculate_path_metrics(df)], {})

\* Directions as calculate_velocity leaves them: undefined, or a degree of [0, 360)
Directions == {NaN, 0, 90, 179, 180, 270, 359}

\* At rest, or a step of 0.05 yd along x
TurnSteps == {<<0, 0>>, <<5, 0>>}

\* calculate_path_metrics on a table that holds direction_calc
CalculateCurvature ==
    /\ pc = "idle"
    /\ \E n \in 1..(MaxTurns + 1) :
         \E steps \in [1..(n - 1) -> TurnSteps], direction_calc \in [1..n -> Directions] :
           LET df == WithColumns(RawDf(1, 1, <<0, 0>>, steps),
                                 [direction_calc |-> direction_calc])
           IN Returns("calculate_path_metrics", [df |-> df],
                      [raised |-> "none", value |-> calculate_path_metrics(df)], {})

\* calculate_te as a call: path_efficiency.iloc[-1] of no rows raises IndexError
TeCall(player_df) ==
    IF DfLen(player_df) = 0 THEN [raised |-> "IndexError", value |-> None]
    ELSE [raised |-> "none", value |-> calculate_te(player_df)]

CalculateTe ==
    /\ pc = "idle"
    /\ \E player_df \in PathSeries(PathSteps) :
         Returns("calculate_te", [player_df |-> player_df], TeCall(player_df), {})

\* Displacements of one yard per frame along x, along y and along a diagonal, and rest
VelocitySteps == {<<0, 0>>, <<100, 0>>, <<0, 100>>, <<60, 80>>}

CalculateVelocity ==
    /\ pc = "idle"
    /\ \E df \in PathSeries(VelocitySteps) :
         Returns("calculate_velocity", [df |-> df],
                 [raised |-> "none", value |-> calculate_velocity(df, smooth_sigma)], {})

\* Displacements of a defender: at rest, a yard along x either way, a yard along y
CmsSteps == {<<0, 0>>, <<100, 0>>, <<-100, 0>>, <<0, 100>>}

\* Target points: far ahead on the x axis, far behind on it, off the axis
CmsTargets == {<<1000, 0>>, <<-1000, 0>>, <<-50, 50>>}

CalculateCms ==
    /\ pc = "idle"
    /\ \E defender_df \in PathSeries(CmsSteps), ball_trajectory \in CmsTargets :
         Returns("calculate_cms",
                 [defender_df |-> defender_df, ball_trajectory |-> ball_trajectory],
                 [raised |-> "none", value |-> calculate_cms(defender_df, ball_trajectory)], {})

\* Displacements of a route runner: at rest, a yard along x, a yard along y
BreakSteps == {<<0, 0>>, <<100, 0>>, <<0, 100>>}

\* No break frame (the default), or a frame of the series or the one after its last
BreakFrames == {None} \cup {Some(f) : f \in 1..(MaxPathLen + 1)}

CalculateBreakQuality ==
    /\ pc = "idle"
    /\ \E df \in PathSeries(BreakSteps), break_frame \in BreakFrames :
         Returns("calculate_break_quality", [df |-> df, break_frame |-> break_frame],
                 [raised |-> "none", value |-> calculate_break_quality(df, break_frame)], {})

\* A variant in which the weights of the role scored last are kept for 'default'
ReturnReweighted ==
    /\ pc = "done"
    /\ pc' = "idle"
    /\ op' = "none"
    /\ args' = <<>>
    /\ ret' = [raised |-> "none", value |-> None]
    /\ trace' = {}
    /\ ROLE_WEIGHTS' = [ROLE_WEIGHTS EXCEPT !["default"] = ROLE_WEIGHTS["Defensive Coverage"]]
    /\ UNCHANGED <<NORMS, JERK_THRESHOLDS, smooth_sigma, rai_results>>

\* The caller takes the result; the calculator keeps nothing of the call
Return ==
    /\ pc = "done"
    /\ pc' = "idle"
    /\ op' = "none"
    /\ args' = <<>>
    /\ ret' = [raised |-> "none", value |-> None]
    /\ trace' = {}
    /\ UNCHANGED <<cfgvars, rai_results>>

Next ==
    \/ DetectReactionFrame
    \/ DetectReactionFrameRaw
    \/ CalculateRtd
    \/ CalculateCompositeRai
    \/ CalculatePlayerRai
    \/ CalculatePlayRai
    \/ CalculateSd
    \/ CalculatePathMetrics
    \/ CalculateTe
    \/ CalculateVelocity
    \/ CalculateCms
    \/ CalculateBreakQuality
    \/ CalculateAllRai
    \/ ProcessPlayerTracking
    \/ CalculateCurvature
    \/ CalculatePlayRaiRoles
    \/ Return

Spec == Init /\ [][Next]_vars

\* The reaction detector and the reaction delay alone
NextDetect == DetectReactionFrame \/ DetectReactionFrameRaw \/ CalculateRtd \/ Return

SpecDetect == Init /\ [][NextDetect]_vars

\* The aggregator alone
NextComposite == CalculateCompositeRai \/ Return

SpecComposite == Init /\ [][NextComposite]_vars

\* The per-entity pipeline alone
NextPlayer == CalculatePlayerRai \/ Return

SpecPlayer == Init /\ [][NextPlayer]_vars

\* The orchestrator alone
NextPlay == CalculatePlayRai \/ Return

SpecPlay == Init /\ [][NextPlay]_vars

\* The separation delta alone
NextSd == CalculateSd \/ Return

SpecSd == Init /\ [][NextSd]_vars

\* The separation delta, called directly and inside the per-entity pipeline
NextSdPlayer == CalculateSd \/ CalculatePlayerRai \/ Return

SpecSdPlayer == Init /\ [][NextSdPlayer]_vars

\* The path metrics, the trajectory efficiency and the velocity alone
NextPath == CalculatePathMetrics \/ CalculateTe \/ CalculateVelocity \/ Return

SpecPath == Init /\ [][NextPath]_vars

\* The coverage-maintenance score alone
NextCms == CalculateCms \/ Return

SpecCms == Init /\ [][NextCms]_vars

\* The break-point quality alone
NextBreak == CalculateBreakQuality \/ Return

SpecBreak == Init /\ [][NextBreak]_vars

\* The engine and the two pipelines, for the short series
NextDegenerate ==
    CalculatePathMetrics \/ CalculateVelocity \/ CalculatePlayerRai \/ CalculatePlayRai \/ Return

SpecDegenerate == Init /\ [][NextDegenerate]_vars

\* The two pipelines and a scorer, called one after another on one calculator
NextPipelines == CalculatePlayerRai \/ CalculatePlayRai \/ CalculateCms \/ Return

SpecPipelines == Init /\ [][NextPipelines]_vars

\* A caller that scores entities and plays in any order on one calculator
NextStateless == CalculatePlayerRai \/ CalculatePlayRai \/ Return

SpecStateless == Init /\ [][NextStateless]_vars

\* A caller that derives the features of one series after another
NextTracking == ProcessPlayerTracking \/ Return

SpecTracking == Init /\ [][NextTracking]_vars

\* A caller that takes the curvature of one directed series after another
NextCurvature == CalculateCurvature \/ Return

SpecCurvature == Init /\ [][NextCurvature]_vars

\* A caller that scores one play after another, the roles taken before the event
NextRoles == CalculatePlayRaiRoles \/ Return

SpecRoles == Init /\ [][NextRoles]_vars

\* A caller that scores one batch of plays after another
NextBatch == CalculateAllRai \/ Return

SpecBatch == Init /\ [][NextBatch]_vars

-----------------------------------------------------------------------------
(* Properties *)

\* The call 'name' has just been made: its arguments and result are in the state
Called(name) == pc = "done" /\ op = name

\* The distinct values of a column
ValuesOf(col) == {col[i] : i \in 1..Len(col)}

\* The entities of a play: those with a row before or after the event
PlayEntities(a) == ValuesOf(a.input_df.nfl_id) \cup ValuesOf(a.output_df.nfl_id)

\* The number of post-event frames of entity e
PostFrames(a, e) == Cardinality({i \in 1..DfLen(a.output_df) : a.output_df.nfl_id[i] = e})

\* An entity with valid data: frames after the event and a role before it
ValidEntity(a, e) == PostFrames(a, e) > 0 /\ e \in ValuesOf(a.input_df.nfl_id)

\* The score of entity e in a play that holds the rows of e alone
ScoredAlone(a, e) ==
    calculate_player_rai(FilterEq(a.input_df, "nfl_id", e), FilterEq(a.output_df, "nfl_id", e),
                         e, a.ball_land_x, a.ball_land_y, None).value

\* C1: calculate_play_rai isolates per-entity failures: no exception escapes, the
\* result has exactly one row per entity with valid data (N-1 rows when one of N
\* entities has no post-event frames), and each of these rows is the score the
\* entity gets in a play of its own: a failing entity removes its row only.
C1_Isolation ==
    Called("calculate_play_rai") =>
        /\ ret.raised = "none"
        /\ Len(ret.value)
             = Cardinality({e \in PlayEntities(args) : ValidEntity(args, e)})
        /\ {ret.value[k].nfl_id : k \in 1..Len(ret.value)}
             = {e \in PlayEntities(args) : ValidEntity(args, e)}
        /\ \A k \in 1..Len(ret.value) : ret.value[k] = ScoredAlone(args, ret.value[k].nfl_id)

\* A play of two entities, one without post-event frames, scored to one row
C1_Witness ==
    /\ Called("calculate_play_rai")
    /\ Cardinality(PlayEntities(args)) = 2
    /\ \E e \in PlayEntities(args) : PostFrames(args, e) = 0
    /\ \E e \in PlayEntities(args) : ValidEntity(args, e)
    /\ ret.raised = "none"
    /\ Len(ret.value) = 1

\* C2: when the post-event window of a play is empty, calculate_play_rai returns an
\* empty result table and does not raise.
C2_EmptyWindow ==
    (Called("calculate_play_rai") /\ DfLen(args.output_df) = 0) =>
        (ret.raised = "none" /\ ret.value = <<>>)

\* A play with pre-event rows and no post-event row, answered by the empty table
C2_Witness ==
    /\ Called("calculate_play_rai")
    /\ DfLen(args.output_df) = 0
    /\ Len(args.input_df.nfl_id) = 2
    /\ ret = [raised |-> "none", value |-> <<>>]

\* The table the detector reads for df: df itself, or the features derived from it
DetectorView(df) ==
    IF HasColumn(df, "jerk_magnitude") THEN df ELSE process_player_tracking(df, smooth_sigma)

\* The positions i where min_frames consecutive samples from i are all defined and
\* strictly greater than the threshold
Onsets(jerk, threshold, min_frames) ==
    {i \in 1..Len(jerk) :
        /\ i + min_frames - 1 <= Len(jerk)
        /\ \A k \in i..(i + min_frames - 1) : jerk[k] # NaN /\ jerk[k] > threshold}

\* result is the frame of the least of onsets, None if there is none
EarliestOnset(onsets, frames, result) ==
    /\ (result = None) <=> (onsets = {})
    /\ \A i \in onsets : (\A j \in onsets : i <= j) => result = Some(frames[i])

OnsetOf(view, a, r) ==
    EarliestOnset(Onsets(view.jerk_magnitude, a.threshold, a.min_frames),
                  view.frame_id, r.value)

\* C3: detect_reaction_frame returns the frame of the earliest position i whose
\* min_frames consecutive jerk samples i..i+min_frames-1 are all strictly greater than
\* the threshold (equal or undefined does not count), and None exactly when there is
\* no such position.
C3_EarliestOnset ==
    Called("detect_reaction_frame") => OnsetOf(DetectorView(args.df), args, ret)

\* A reaction found after a sample equal to the threshold and an undefined one
C3_Witness ==
    /\ Called("detect_reaction_frame")
    /\ HasColumn(args.df, "jerk_magnitude")
    /\ Len(args.df.jerk_magnitude) = 4
    /\ args.min_frames = 2
    /\ args.df.jerk_magnitude[1] = args.threshold
    /\ args.df.jerk_magnitude[2] = NaN
    /\ ret.value = Some(args.df.frame_id[3])

\* C4 (as stated): with no reaction calculate_rtd returns the series length, and for
\* every series and role the result is never greater than the number of samples.
C4_LengthIsMaximum ==
    Called("calculate_rtd") =>
        /\ (Onsets(args.player_df.jerk_magnitude,
                   DictGet(JERK_THRESHOLDS, args.player_role, JERK_THRESHOLDS["default"]), 2) = {})
              => ret.value = DfLen(args.player_df)
        /\ ret.value <= DfLen(args.player_df)

\* The jerk series s with its onset delayed by n samples of value fill, same length
Delayed(s, n, fill) == [i \in 1..Len(s) |-> IF i <= n THEN fill ELSE s[i - n]]

\* Sample values below every threshold of the table
SubThreshold == {NaN, 50}

\* C5 (as stated): if B's jerk series is A's delayed by N > 0 sub-threshold samples
\* (same role, length and frame numbering), then calculate_rtd(B) >= calculate_rtd(A).
C5_DelayMonotone ==
    Called("calculate_rtd") =>
        \A n \in 1..DfLen(args.player_df), fill \in SubThreshold :
            calculate_rtd([args.player_df EXCEPT
                              !.jerk_magnitude = Delayed(@, n, fill)], args.player_role)
                >= ret.value

\* The population mean and standard deviation of each component, as the claim gives
\* them: rtd (4.0, 2.0), te (0.85, 0.10), bpq (0.60, 0.15), cms (0.50, 0.25), sd (0.0, 2.0)
StatedMean == [rtd |-> 4, te |-> 8500, bpq |-> 6000, cms |-> 5000, sd |-> 0]

StatedStd == [rtd |-> 2, te |-> 1000, bpq |-> 1500, cms |-> 2500, sd |-> 20000]

\* weight * (value - mean) / std of component c if present, else nothing
StatedTerm(weights, components, c) ==
    IF c \in DOMAIN components
    THEN weights[c] * ((components[c] - StatedMean[c]) * (ZScale \div StatedStd[c]))
    ELSE 0

StatedSum(weights, components) ==
    StatedTerm(weights, components, "rtd") + StatedTerm(weights, components, "te")
    + StatedTerm(weights, components, "bpq") + StatedTerm(weights, components, "cms")
    + StatedTerm(weights, components, "sd")

\* C6: calculate_composite_rai is the sum over the components present of
\* weight[role][c] * (value[c] - mean[c]) / std[c] with the stated constants; an
\* absent component contributes nothing; components all at their mean give 0.
C6_WeightedSum ==
    Called("calculate_composite_rai") =>
        /\ ret.value = StatedSum(DictGet(ROLE_WEIGHTS, args.player_role,
                                         ROLE_WEIGHTS["default"]), args.components)
        /\ (\A c \in DOMAIN args.components : args.components[c] = StatedMean[c])
              => ret.value = 0

\* A composite of some components off their mean, others absent
C6_Witness ==
    /\ Called("calculate_composite_rai")
    /\ DOMAIN args.components = {"rtd", "sd"}
    /\ args.components.rtd = 5
    /\ args.components.sd = -20000
    /\ args.player_role = "Defensive Coverage"
    /\ ret.value = (-25) * (ZScale \div 2) + (-15) * (-ZScale)

\* The role labels with a weight profile of their own
RecognizedRoles ==
    {"Defensive Coverage", "Targeted Receiver", "Pass Route", "Pass Rush", "default"}

\* C7: for a role label outside the recognized ones calculate_composite_rai gives
\* exactly the score of the literal role 'default' on the same components, and does
\* not raise.
C7_RoleFallback ==
    (Called("calculate_composite_rai") /\ args.player_role \notin RecognizedRoles) =>
        /\ ret.raised = "none"
        /\ ret.value = calculate_composite_rai(args.components, "default")

\* An unrecognized role scored to a non-zero composite
C7_Witness ==
    /\ Called("calculate_composite_rai")
    /\ args.player_role = "Other Route Runner"
    /\ DOMAIN args.components = ComponentSet
    /\ ret.value # 0

\* The thresholds as the claim states them, in 0.1 yard/s^3
StatedThreshold(player_role) ==
    CASE player_role = "Defensive Coverage" -> 80
      [] player_role = "Targeted Receiver" -> 50
      [] player_role = "Pass Route" -> 60
      [] player_role = "Pass Rush" -> 120
      [] OTHER -> 80

\* ... and with the entry of 'Pass Block'
AmendedThreshold(player_role) ==
    IF player_role = "Pass Block" THEN 100 ELSE StatedThreshold(player_role)

\* The reaction delay of the series under the threshold given
RtdUnder(player_df, threshold) == RtdOf(DetectOf(player_df, threshold, 2), player_df)

FourRoles == {"Defensive Coverage", "Targeted Receiver", "Pass Route", "Pass Rush"}

\* A role outside the four has the weights of 'default'
DefaultWeights(player_role) ==
    player_role \in FourRoles
    \/ DictGet(ROLE_WEIGHTS, player_role, ROLE_WEIGHTS["default"]) = ROLE_WEIGHTS["default"]

\* C8 (as stated): calculate_rtd uses the threshold 8.0 for 'Defensive Coverage', 5.0
\* for 'Targeted Receiver', 6.0 for 'Pass Route', 12.0 for 'Pass Rush' and 8.0 for
\* every other label, which also has the weights of 'default'.
C8_ThresholdsAsStated ==
    Called("calculate_rtd") =>
        /\ ret.value = RtdUnder(args.player_df, StatedThreshold(args.player_role))
        /\ DefaultWeights(args.player_role)

\* C8 (amended): as stated, but 10.0 for 'Pass Block'.
C8_Thresholds ==
    Called("calculate_rtd") =>
        /\ ret.value = RtdUnder(args.player_df, AmendedThreshold(args.player_role))
        /\ DefaultWeights(args.player_role)

\* A 'Pass Block' series between 8.0 and 10.0: no reaction, where 8.0 would find one
C8_Witness ==
    /\ Called("calculate_rtd")
    /\ args.player_role = "Pass Block"
    /\ args.player_df.jerk_magnitude = <<100, 100, 50>>
    /\ args.player_df.frame_id = <<1, 2, 3>>
    /\ ret.value = 3
    /\ RtdUnder(args.player_df, 80) = 1

\* The composite of the call with component c raised by one step
Raised(a, c) ==
    calculate_composite_rai([a.components EXCEPT ![c] = @ + ComponentStep[c]], a.player_role)

\* C9: for every role, raising rtd strictly lowers the composite, raising te, bpq or
\* cms strictly raises it, and raising sd strictly lowers it for 'Defensive Coverage'
\* and strictly raises it for every other role.
C9_WeightSigns ==
    Called("calculate_composite_rai") =>
        \A c \in DOMAIN args.components :
            /\ c = "rtd" => Raised(args, c) < ret.value
            /\ c \in {"te", "bpq", "cms"} => Raised(args, c) > ret.value
            /\ (c = "sd" /\ args.player_role = "Defensive Coverage")
                  => Raised(args, c) < ret.value
            /\ (c = "sd" /\ args.player_role # "Defensive Coverage")
                  => Raised(args, c) > ret.value

\* A coverage composite that a larger sd lowers and a larger cms raises
C9_Witness ==
    /\ Called("calculate_composite_rai")
    /\ args.player_role = "Defensive Coverage"
    /\ DOMAIN args.components = ComponentSet
    /\ Raised(args, "sd") < ret.value
    /\ Raised(args, "cms") > ret.value

\* C10: in calculate_player_rai the bpq of the result is exactly 0.5 for every role
\* other than 'Pass Route' and 'Targeted Receiver', the cms exactly 0.5 for every
\* role other than 'Defensive Coverage', and the two scorers run for those roles only.
C10_NeutralByRole ==
    (Called("calculate_player_rai") /\ ret.raised = "none") =>
        /\ ret.value.player_role \notin {"Pass Route", "Targeted Receiver"}
              => (ret.value.bpq = 5000 /\ "calculate_bpq" \notin trace)
        /\ ret.value.player_role # "Defensive Coverage"
              => (ret.value.cms = 5000 /\ "calculate_cms" \notin trace)
        /\ ret.value.player_role \in {"Pass Route", "Targeted Receiver"}
              => "calculate_bpq" \in trace
        /\ ret.value.player_role = "Defensive Coverage" => "calculate_cms" \in trace

\* What the two scorers give on the entity's motion
BpqOfMotion(a) == calculate_bpq(sort_values(FilterEq(a.output_df, "nfl_id", a.nfl_id)))

CmsOfMotion(a) ==
    calculate_cms(sort_values(FilterEq(a.output_df, "nfl_id", a.nfl_id)),
                  <<a.ball_land_x, a.ball_land_y>>)

\* A pass rusher whose motion the two scorers would not score 0.5
C10_Witness ==
    /\ Called("calculate_player_rai")
    /\ ret.raised = "none"
    /\ ret.value.player_role = "Pass Rush"
    /\ ret.value.bpq = 5000
    /\ ret.value.cms = 5000
    /\ BpqOfMotion(args) # 5000
    /\ CmsOfMotion(args) # 5000

\* The frames at which both tables have a row
CommonFrames(a) == ValuesOf(a.receiver_df.frame_id) \cap ValuesOf(a.defender_df.frame_id)

FirstCommon(a) == CHOOSE f \in CommonFrames(a) : \A g \in CommonFrames(a) : f <= g

LastCommon(a) == CHOOSE f \in CommonFrames(a) : \A g \in CommonFrames(a) : g <= f

\* The row of frame f in a table
RowAt(df, f) == CHOOSE i \in 1..DfLen(df) : df.frame_id[i] = f

\* The offset between the two entities at frame f, along x and along y
OffsetX(a, f) == a.receiver_df.x[RowAt(a.receiver_df, f)] - a.defender_df.x[RowAt(a.defender_df, f)]

OffsetY(a, f) == a.receiver_df.y[RowAt(a.receiver_df, f)] - a.defender_df.y[RowAt(a.defender_df, f)]

\* The square of their distance at frame f, and the distance
DistanceSq(a, f) == OffsetX(a, f) * OffsetX(a, f) + OffsetY(a, f) * OffsetY(a, f)

DistanceAt(a, f) == Hypot(OffsetX(a, f), OffsetY(a, f), DistScale)

\* The rows of a table come in the order of their frames
InFrameOrder(df) == \A i \in 1..(DfLen(df) - 1) : df.frame_id[i] < df.frame_id[i + 1]

\* The offset between the two entities is the same at every common frame
NoRelativeMotion(a) ==
    \A f \in CommonFrames(a), g \in CommonFrames(a) :
        OffsetX(a, f) = OffsetX(a, g) /\ OffsetY(a, f) = OffsetY(a, g)

C12_OrderAndSymmetry ==
    (Called("calculate_sd") /\ Cardinality(CommonFrames(args)) >= 2) =>
        /\ ret.value = DistanceAt(args, LastCommon(args)) - DistanceAt(args, FirstCommon(args))
        /\ ret.value = calculate_sd(args.defender_df, args.receiver_df)

\* C13: calculate_sd is exactly 0 and does not raise when the two series have fewer
\* than 2 common frames, and the sd of calculate_player_rai is exactly 0 when no
\* comparison entity is supplied.
C13_NoComparison ==
    /\ (Called("calculate_sd") /\ Cardinality(CommonFrames(args)) < 2)
          => (ret.raised = "none" /\ ret.value = 0)
    /\ (Called("calculate_player_rai") /\ args.closest_opponent_df = None
        /\ PostFrames(args, args.nfl_id) > 0 /\ ret.raised = "none")
          => ret.value.sd = 0

\* Two moving entities that share one frame only
C13_Witness ==
    /\ Called("calculate_sd")
    /\ args.receiver_df.frame_id = <<1, 2>>
    /\ args.defender_df.frame_id = <<2, 3>>
    /\ args.receiver_df.x = <<0, 200>>
    /\ args.defender_df.x = <<0, 100>>
    /\ ret = [raised |-> "none", value |-> 0]

-----------------------------------------------------------------------------
(* Path efficiency, trajectory efficiency, velocity *)

\* Cumulative path length up to sample i, in 0.0001 yard, from the positions
RECURSIVE StatedPathLength(_, _)
StatedPathLength(df, i) ==
    IF i <= 1 THEN 0
    ELSE Hypot(df.x[i] - df.x[i - 1], df.y[i] - df.y[i - 1], DistScale)
         + StatedPathLength(df, i - 1)

\* Straight-line distance from the first sample to sample i
StatedStraight(df, i) == Hypot(df.x[i] - df.x[1], df.y[i] - df.y[1], DistScale)

StatedRatio(straight, path_length) == RoundDiv(straight * 10000, path_length)

\* The ratio when the path is longer than 0.1 yard, else 1.0
EfficiencyAt(df, i) ==
    IF StatedPathLength(df, i) > PathLengthEps
    THEN StatedRatio(StatedStraight(df, i), StatedPathLength(df, i))
    ELSE 10000

\* The ratio when the path is 0.1 yard or longer, else 1.0
EfficiencyFromTenth(df, i) ==
    IF StatedPathLength(df, i) >= PathLengthEps
    THEN StatedRatio(StatedStraight(df, i), StatedPathLength(df, i))
    ELSE 10000

\* C14: calculate_te of a non-empty position series returns the path efficiency of
\* the final sample, and the value lies in [0, 1]
C14_FinalEfficiency ==
    (Called("calculate_te") /\ DfLen(args.player_df) > 0) =>
        /\ ret.raised = "none"
        /\ ret.value = EfficiencyAt(args.player_df, DfLen(args.player_df))
        /\ ret.value >= 0
        /\ ret.value <= 10000

\* A path that turns back, scored below 1.0 at its last sample
C14_Witness ==
    /\ Called("calculate_te")
    /\ DfLen(args.player_df) = MaxPathLen
    /\ ret.raised = "none"
    /\ ret.value > 0
    /\ ret.value < 10000
    /\ EfficiencyAt(args.player_df, 2) = 10000

\* C15 as stated: at every frame the path efficiency is straight-line distance over
\* cumulative path length, 1.0 below 0.1 yard, the ratio from 0.1 yard on
C15_RatioFromTenth ==
    Called("calculate_path_metrics") =>
        \A i \in 1..DfLen(args.df) :
            ret.value.path_efficiency[i] = EfficiencyFromTenth(args.df, i)

\* C15: at every frame the path efficiency is straight-line distance over cumulative
\* path length when that length is more than 0.1 yard, and 1.0 when it is 0.1 yard
\* or less
C15_RatioAboveTenth ==
    Called("calculate_path_metrics") =>
        \A i \in 1..DfLen(args.df) :
            ret.value.path_efficiency[i] = EfficiencyAt(args.df, i)

\* A path of exactly 0.1 yard that is back where it began: 1.0, not the ratio 0.0
C15_Witness ==
    /\ Called("calculate_path_metrics")
    /\ \E i \in 1..DfLen(args.df) :
         /\ StatedPathLength(args.df, i) = PathLengthEps
         /\ StatedStraight(args.df, i) = 0
         /\ ret.value.path_efficiency[i] = 10000

\* All samples on one line, moving in one direction (or at rest)
Linear(df) ==
    \A i, j \in 1..(DfLen(df) - 1) :
        /\ (df.x[i + 1] - df.x[i]) * (df.y[j + 1] - df.y[j])
             = (df.y[i + 1] - df.y[i]) * (df.x[j + 1] - df.x[j])
        /\ (df.x[i + 1] - df.x[i]) * (df.x[j + 1] - df.x[j])
             + (df.y[i + 1] - df.y[i]) * (df.y[j + 1] - df.y[j]) >= 0

\* C16: for a linear, monotonic position sequence the final path efficiency and
\* calculate_te are within 0.01 of 1.0
C16_LinearIsEfficient ==
    (Called("calculate_te") /\ DfLen(args.player_df) > 0 /\ Linear(args.player_df)) =>
        /\ ret.value >= 9900
        /\ ret.value <= 10100
        /\ EfficiencyAt(args.player_df, DfLen(args.player_df)) >= 9900
        /\ EfficiencyAt(args.player_df, DfLen(args.player_df)) <= 10100

\* x = 0, 1, 2, 3, 4 yards, y = 0
C16_Witness ==
    /\ Called("calculate_te")
    /\ args.player_df.x = <<0, 100, 200, 300, 400>>
    /\ args.player_df.y = <<0, 0, 0, 0, 0>>
    /\ ret.value > 9900

\* Steps lo..hi run along column c only, in one direction
AlongOnly(df, lo, hi, c, o) ==
    /\ \A i \in lo..hi : df[o][i + 1] = df[o][i]
    /\ \A i, j \in lo..hi : (df[c][i + 1] - df[c][i]) * (df[c][j + 1] - df[c][j]) >= 0

LegLength(df, lo, hi, c) == Abs(df[c][hi + 1] - df[c][lo])

\* Leg a of steps 1..k along c, then leg b along o, neither more than twice the other
LShapedAt(df, k, c, o) ==
    /\ AlongOnly(df, 1, k, c, o)
    /\ AlongOnly(df, k + 1, DfLen(df) - 1, o, c)
    /\ LegLength(df, 1, k, c) > 0
    /\ LegLength(df, k + 1, DfLen(df) - 1, o) > 0
    /\ LegLength(df, 1, k, c) <= 2 * LegLength(df, k + 1, DfLen(df) - 1, o)
    /\ LegLength(df, k + 1, DfLen(df) - 1, o) <= 2 * LegLength(df, 1, k, c)

LShaped(df) ==
    \E k \in 1..(DfLen(df) - 2) : LShapedAt(df, k, "x", "y") \/ LShapedAt(df, k, "y", "x")

\* The same steps laid out along x: the distance walked up to sample i, in 0.01 yard
RECURSIVE Walked(_, _)
Walked(df, i) ==
    IF i <= 1 THEN 0
    ELSE Abs(df.x[i] - df.x[i - 1]) + Abs(df.y[i] - df.y[i - 1]) + Walked(df, i - 1)

Straightened(df) ==
    [df EXCEPT !.x = [i \in 1..DfLen(df) |-> Walked(df, i)],
               !.y = [i \in 1..DfLen(df) |-> 0]]

BelowStraight(te, straight_te) == te < 9500 /\ te < straight_te

\* C17 as stated: every L-shaped path with comparable legs has a calculate_te below
\* 0.95 and strictly below that of the straight path of the same steps
C17_EveryLShape ==
    (Called("calculate_te") /\ LShaped(args.player_df)) =>
        BelowStraight(ret.value, calculate_te(Straightened(args.player_df)))

\* C17: every L-shaped path with comparable legs and more than 0.1 yard long has a
\* calculate_te below 0.95 and strictly below that of the straight path of the same
\* steps
C17_LongLShape ==
    (/\ Called("calculate_te")
     /\ LShaped(args.player_df)
     /\ StatedPathLength(args.player_df, DfLen(args.player_df)) > PathLengthEps) =>
        BelowStraight(ret.value, calculate_te(Straightened(args.player_df)))

\* x = 0, 1, 2, 2, 2 yards, y = 0, 0, 0, 1, 2 yards
C17_Witness ==
    /\ Called("calculate_te")
    /\ args.player_df.x = <<0, 100, 200, 200, 200>>
    /\ args.player_df.y = <<0, 0, 0, 100, 200>>
    /\ LShaped(args.player_df)
    /\ ret.value < 9500

\* One yard per frame, the same step every frame
UniformMotion(df) ==
    /\ DfLen(df) >= 2
    /\ \A i \in 1..(DfLen(df) - 1) :
         /\ df.x[i + 1] - df.x[i] = df.x[2] - df.x[1]
         /\ df.y[i + 1] - df.y[i] = df.y[2] - df.y[1]
    /\ (df.x[2] - df.x[1]) * (df.x[2] - df.x[1])
         + (df.y[2] - df.y[1]) * (df.y[2] - df.y[1]) = 10000

\* Strictly between 9 and 11 yards per second
NearTen(speed) == ~IsNaN(speed) /\ speed > 900 /\ speed < 1100

\* C18 as stated: for uniform motion of 1 yard per frame the speed of
\* calculate_velocity is within 1 of 10 yards per second, at every sample
C18_SpeedEverySample ==
    (Called("calculate_velocity") /\ UniformMotion(args.df)) =>
        \A i \in 1..DfLen(args.df) : NearTen(ret.value.speed_calc[i])

\* C18: for uniform motion of 1 yard per frame the speed of calculate_velocity is
\* within 1 of 10 yards per second at every sample from the third on
C18_SpeedFromThird ==
    (Called("calculate_velocity") /\ UniformMotion(args.df)) =>
        \A i \in 3..DfLen(args.df) : NearTen(ret.value.speed_calc[i])

\* The 5-sample series x = 0..4 yards: near 10 at index 2, not at index 0
C18_Witness ==
    /\ Called("calculate_velocity")
    /\ args.df.x = <<0, 100, 200, 300, 400>>
    /\ args.df.y = <<0, 0, 0, 0, 0>>
    /\ NearTen(ret.value.speed_calc[3])
    /\ ~NearTen(ret.value.speed_calc[1])

-----------------------------------------------------------------------------
(* Coverage maintenance *)

\* The bearing from sample i to the target, in degrees
Bearing(df, ball, i) == Atan2Deg(ball[2] - df.y[i], ball[1] - df.x[i])

\* A difference of angles brought into [-180, 180)
Wrapped(d) == IF d % 360 >= 180 THEN (d % 360) - 360 ELSE d % 360

\* Sum over the samples 1..i with a direction of |wrapped(bearing - direction)|
RECURSIVE SumOfDiffs(_, _, _, _)
SumOfDiffs(direction, df, ball, i) ==
    IF i = 0 THEN 0
    ELSE (IF IsNaN(direction[i]) THEN 0
          ELSE Abs(Wrapped(Bearing(df, ball, i) - direction[i])))
         + SumOfDiffs(direction, df, ball, i - 1)

Directed(direction) == Cardinality({i \in 1..Len(direction) : ~IsNaN(direction[i])})

\* 1 - mean / 180
StatedCms(direction, df, ball) ==
    10000 - RoundDiv(SumOfDiffs(direction, df, ball, DfLen(df)) * 10000,
                     180 * Directed(direction))

\* Every step moves, along the line to the target, with the target still ahead
\* (sign = 1) or behind (sign = -1) before and after it
Heads(df, ball, sign) ==
    \A i \in 1..(DfLen(df) - 1) :
        /\ (df.x[i + 1] - df.x[i]) * (ball[2] - df.y[i])
             = (df.y[i + 1] - df.y[i]) * (ball[1] - df.x[i])
        /\ sign * ((df.x[i + 1] - df.x[i]) * (ball[1] - df.x[i])
                    + (df.y[i + 1] - df.y[i]) * (ball[2] - df.y[i])) > 0
        /\ sign * ((df.x[i + 1] - df.x[i]) * (ball[1] - df.x[i + 1])
                    + (df.y[i + 1] - df.y[i]) * (ball[2] - df.y[i + 1])) > 0

CmsAsStated(direction, df, ball, value) ==
    /\ value = StatedCms(direction, df, ball)
    /\ value >= 0
    /\ value <= 10000
    /\ Heads(df, ball, 1) => value = 10000
    /\ Heads(df, ball, -1) => value = 0

\* C19: calculate_cms is 0.5 for fewer than 3 frames; for 3 or more it is
\* 1 - mean |wrapped(bearing to the target - movement direction)| / 180, in [0, 1],
\* 1.0 when every frame heads straight at the target, 0.0 when straight away
C19_CoverageScore ==
    Called("calculate_cms") =>
        IF DfLen(args.defender_df) < 3 THEN ret.value = NEUTRAL
        ELSE \A direction \in {calculate_velocity(args.defender_df, smooth_sigma).direction_calc} :
                 CmsAsStated(direction, args.defender_df, args.ball_trajectory, ret.value)

\* A smoothed series that runs straight away from the target
C19_Witness ==
    /\ Called("calculate_cms")
    /\ DfLen(args.defender_df) > 3
    /\ Heads(args.defender_df, args.ball_trajectory, -1)
    /\ ret.value = 0

-----------------------------------------------------------------------------
(* Break-point quality *)

\* The sample of the break: the caller's frame, else the first sample of the largest
\* defined curvature
StatedBreak(frame_id, curvature, break_frame) ==
    IF break_frame # None
    THEN CHOOSE i \in 1..Len(frame_id) : Some(frame_id[i]) = break_frame
    ELSE CHOOSE i \in 1..Len(curvature) :
            /\ ~IsNaN(curvature[i])
            /\ \A j \in 1..Len(curvature) :
                 \/ IsNaN(curvature[j])
                 \/ curvature[j] < curvature[i]
                 \/ (curvature[j] = curvature[i] /\ j >= i)

\* The samples of rows that have a speed
Moving(speed, rows) == {i \in rows \cap (1..Len(speed)) : ~IsNaN(speed[i])}

RECURSIVE SpeedSum(_, _)
SpeedSum(speed, rows) ==
    IF rows = {} THEN 0
    ELSE speed[CHOOSE i \in rows : TRUE]
         + SpeedSum(speed, rows \ {CHOOSE i \in rows : TRUE})

\* Mean speed below 0.1 yard/s (no sample: 0.0)
NearStationary(speed, rows) == rows = {} \/ SpeedSum(speed, rows) < 10 * Cardinality(rows)

\* min(post / (pre + 0.1), 1.0), 0.5 when the speed before the break is below 0.1
StatedMaintenance(speed, pre, post) ==
    IF NearStationary(speed, pre) THEN 5000
    ELSE IF post = {} THEN 0
    ELSE MinOf(10000,
               RoundDiv(SpeedSum(speed, post) * Cardinality(pre) * 10000,
                        Cardinality(post) * (SpeedSum(speed, pre) + 10 * Cardinality(pre))))

\* min(curvature / 50, 1.0), a missing curvature counting 0.0
StatedCurvatureScore(curvature) == IF IsNaN(curvature) THEN 0 ELSE MinOf(10000, 2 * curvature)

Combined(maintenance, curvature_score, value) ==
    /\ maintenance >= 0
    /\ maintenance <= 10000
    /\ curvature_score >= 0
    /\ curvature_score <= 10000
    /\ value = RoundDiv(6 * maintenance + 4 * curvature_score, 10)

CombinedAt(speed, curvature, pos, value) ==
    Combined(StatedMaintenance(speed,
                 Moving(speed, (pos - BREAK_WINDOW)..(pos - 1)),
                 Moving(speed, pos..(pos + BREAK_WINDOW))),
             StatedCurvatureScore(curvature[pos]), value)

BreakQualityAsStated(view, break_frame, value) ==
    /\ ~IsNaN(value)
    /\ value >= 0
    /\ value <= 10000
    /\ IF DfLen(view) < 3 THEN value = NEUTRAL
       ELSE IF break_frame # None /\ \A i \in 1..DfLen(view) : Some(view.frame_id[i]) # break_frame
       THEN value = NEUTRAL
       ELSE CombinedAt(view.speed_calc, view.curvature,
                       StatedBreak(view.frame_id, view.curvature, break_frame), value)

\* C20: calculate_break_quality never raises and never returns NaN: the result is in
\* [0, 1] and is 0.6 * speed-maintenance + 0.4 * curvature-score, both in [0, 1], a
\* missing curvature counting 0.0 and a pre-break speed below 0.1 giving 0.5; it is
\* 0.5 for fewer than 3 samples and for a break frame that is not in the series
C20_BreakQuality ==
    Called("calculate_break_quality") =>
        /\ ret.raised = "none"
        /\ \A view \in {process_player_tracking(args.df, smooth_sigma)} :
             BreakQualityAsStated(view, args.break_frame, ret.value)

\* A break at the first sample: no speed before it and no curvature at it
C20_Witness ==
    /\ Called("calculate_break_quality")
    /\ DfLen(args.df) >= 3
    /\ args.break_frame = Some(1)
    /\ ret.value = 3000

-----------------------------------------------------------------------------
(* Degenerate input *)

\* The scores of a series of one sample
OneFrameScores(row) ==
    /\ row.rtd = 1
    /\ row.te = 10000
    /\ row.bpq = NEUTRAL
    /\ row.cms = NEUTRAL
    /\ row.sd = 0

\* Entity e has a role to be scored under: a pre-event row, or no role column at all
HasRole(a, e) == e \in ValuesOf(a.input_df.nfl_id) \/ ~HasColumn(a.input_df, "player_role")

-----------------------------------------------------------------------------
(* Series shorter than the run asked for *)

\* C22: for a jerk series of fewer samples than min_frames, the empty one included,
\* detect_reaction_frame returns None and does not raise, whatever the samples and
\* the threshold
C22_ShortSeries ==
    (Called("detect_reaction_frame") /\ DfLen(args.df) < args.min_frames) =>
        (ret.raised = "none" /\ ret.value = None)

\* Two samples above the threshold where three in a row are asked for
C22_Witness ==
    /\ Called("detect_reaction_frame")
    /\ HasColumn(args.df, "jerk_magnitude")
    /\ args.min_frames = 3
    /\ Len(args.df.jerk_magnitude) = 2
    /\ \A i \in 1..2 : args.df.jerk_magnitude[i] # NaN /\ args.df.jerk_magnitude[i] > args.threshold
    /\ ret.value = None

-----------------------------------------------------------------------------
(* Determinism and statelessness *)

\* The configuration as constructed
Configured ==
    /\ ROLE_WEIGHTS = RoleWeightsTable
    /\ NORMS = NormsTable
    /\ JERK_THRESHOLDS = JerkThresholdsTable
    /\ smooth_sigma = 1

\* calculate_player_rai invoked again, now, on the arguments of the call just made
PlayerAgain(a) ==
    calculate_player_rai(a.input_df, a.output_df, a.nfl_id, a.ball_land_x, a.ball_land_y,
                         a.closest_opponent_df)

SameOutcome(first, second) == first.raised = second.raised /\ first.value = second.value

PlayAgain(a) == calculate_play_rai(a.input_df, a.output_df, a.ball_land_x, a.ball_land_y)

\* The caller's tables hold the columns they were given with, and no derived one
CallerTables(a) ==
    /\ DOMAIN a.output_df = {"nfl_id", "frame_id", "x", "y"}
    /\ DOMAIN a.input_df \subseteq {"nfl_id", "frame_id", "player_role"}

PipelineCall == Called("calculate_play_rai") \/ Called("calculate_player_rai")

-----------------------------------------------------------------------------
(* The batch *)

\* C25: whatever subset of the plays of a batch raise or have an empty post-event
\* window, every one of them included, calculate_all_rai completes without
\* raising and rai_results holds the rows of every play that was scored
C25_NoFatalError ==
    Called("calculate_all_rai") =>
        /\ ret.raised = "none"
        /\ rai_results = Some(RowsOfAll(AllResults(args.plays, 1)))


-----------------------------------------------------------------------------
(* Row order *)

\* The rows of df in ascending frame_id (the frame indices are distinct)
ByFrame(df) ==
    Take(df, [p \in 1..DfLen(df) |->
                 CHOOSE i \in 1..DfLen(df) :
                     Cardinality({j \in 1..DfLen(df) : df.frame_id[j] < df.frame_id[i]}) = p - 1])

\* C26: process_player_tracking orders the samples by frame index before it
\* differentiates: for any order of the rows of a series the output is in
\* ascending frame order and holds, frame by frame, the values derived from
\* the series given in frame order
C26_AnyRowOrder ==
    Called("process_player_tracking") =>
        \A ordered \in {process_player_tracking(ByFrame(args.df), smooth_sigma)} :
            /\ InFrameOrder(ret.value)
            /\ ret.value = ordered

\* A run long enough to be smoothed, given out of frame order, with a defined jerk
C26_Witness ==
    /\ Called("process_player_tracking")
    /\ DfLen(args.df) > 3
    /\ ~InFrameOrder(args.df)
    /\ ~IsNaN(ILocLast(ret.value.jerk_magnitude))
    /\ \E i \in 1..DfLen(args.df) : ret.value.speed_calc[i] > 0


-----------------------------------------------------------------------------
(* Wrap-around *)

\* The differences of successive directions of a table, where both are defined
Turns(df) ==
    {i \in 2..DfLen(df) : ~IsNaN(df.direction_calc[i]) /\ ~IsNaN(df.direction_calc[i - 1])}

TurnAt(df, i) == df.direction_calc[i] - df.direction_calc[i - 1]

\* C27: for every difference d of two directions of [0, 360), ((d + 180) mod 360) - 180
\* is congruent to d modulo 360 and lies in [-180, 180], so its absolute value is
\* at most 180 and the curvature is never negative
C27_WrapAround ==
    (Called("calculate_path_metrics") /\ HasColumn(args.df, "direction_calc")) =>
        /\ \A i \in Turns(args.df) :
             /\ (WrapAngle(TurnAt(args.df, i)) - TurnAt(args.df, i)) % 360 = 0
             /\ WrapAngle(TurnAt(args.df, i)) \in -180..180
             /\ Abs(WrapAngle(TurnAt(args.df, i))) <= 180
        /\ \A i \in 1..DfLen(args.df) :
             IsNaN(ret.value.curvature[i]) \/ ret.value.curvature[i] >= 0

\* A turn across 0/360 in either sense, wrapped to the short way round
C27_Witness ==
    /\ Called("calculate_path_metrics")
    /\ HasColumn(args.df, "direction_calc")
    /\ \E i, j \in Turns(args.df) :
         /\ TurnAt(args.df, i) > 180 /\ WrapAngle(TurnAt(args.df, i)) < 0
         /\ TurnAt(args.df, j) < -180 /\ WrapAngle(TurnAt(args.df, j)) > 0
         /\ ret.value.curvature[i] > 0 /\ ret.value.curvature[j] > 0


-----------------------------------------------------------------------------
(* Entities of a play *)

\* The post-event rows of a play with the samples of every entity but e moved,
\* further with every frame
OthersMoved(df, e) ==
    WithColumns(df,
        [x |-> [i \in 1..DfLen(df) |->
                   IF df.nfl_id[i] = e THEN df.x[i] ELSE df.x[i] + 100 * df.frame_id[i]],
         y |-> [i \in 1..DfLen(df) |->
                   IF df.nfl_id[i] = e THEN df.y[i] ELSE df.y[i] - 50 * df.frame_id[i]]])

\* The row of entity e in a play result
RowsFor(result, e) == {result[k] : k \in {j \in 1..Len(result) : result[j].nfl_id = e}}

\* C28: calculate_play_rai never supplies a comparison entity: sd is exactly 0 in
\* every row, and the row of an entity depends on its own samples, its role and
\* the target point only, so it stays the same when the samples of the other
\* entities change
C28_OwnSamplesOnly ==
    Called("calculate_play_rai") =>
        \A k \in 1..Len(ret.value) :
            /\ ret.value[k].sd = 0
            /\ RowsFor(calculate_play_rai(args.input_df,
                                          OthersMoved(args.output_df, ret.value[k].nfl_id),
                                          args.ball_land_x, args.ball_land_y).value,
                       ret.value[k].nfl_id) = {ret.value[k]}

\* Two entities scored over a run of frames each
C28_Witness ==
    /\ Called("calculate_play_rai")
    /\ Len(ret.value) = 2
    /\ \A e \in PlayEntities(args) : PostFrames(args, e) > 2
    /\ \A e \in PlayEntities(args) : OthersMoved(args.output_df, e) # args.output_df

\* The first row of a column that holds e
FirstRow(col, e) == CHOOSE i \in 1..Len(col) : col[i] = e /\ \A j \in 1..(i - 1) : col[j] # e

\* C29: when the pre-event table has a player_role column, the result of
\* calculate_play_rai holds exactly one row for every entity with a post-event
\* frame and a pre-event row, in the order in which the entities first appear
\* in the post-event window, and no other row: an entity without a pre-event
\* row is skipped; the role of a row is that of the entity's first pre-event row
C29_RowsAndRoles ==
    (Called("calculate_play_rai") /\ HasColumn(args.input_df, "player_role")) =>
        /\ ret.raised = "none"
        /\ {ret.value[k].nfl_id : k \in 1..Len(ret.value)}
             = ValuesOf(args.output_df.nfl_id) \cap ValuesOf(args.input_df.nfl_id)
        /\ \A k, l \in 1..Len(ret.value) :
             k < l => FirstRow(args.output_df.nfl_id, ret.value[k].nfl_id)
                        < FirstRow(args.output_df.nfl_id, ret.value[l].nfl_id)
        /\ \A k \in 1..Len(ret.value) :
             ret.value[k].player_role
               = args.input_df.player_role[FirstRow(args.input_df.nfl_id, ret.value[k].nfl_id)]

\* Two entities, the second met first after the event, one of them with two
\* pre-event rows of different roles
C29_Witness ==
    /\ Called("calculate_play_rai")
    /\ HasColumn(args.input_df, "player_role")
    /\ Len(ret.value) = 2
    /\ ret.value[1].nfl_id > ret.value[2].nfl_id
    /\ args.input_df.nfl_id[1] < args.input_df.nfl_id[DfLen(args.input_df)]
    /\ \E i, j \in 1..DfLen(args.input_df) :
         /\ i < j
         /\ args.input_df.nfl_id[i] = args.input_df.nfl_id[j]
         /\ args.input_df.player_role[i] # args.input_df.player_role[j]
         /\ ret.value[1].player_role = args.input_df.player_role[i]


-----------------------------------------------------------------------------
(* Reaction delay over frames 1..n *)

\* The threshold calculate_rtd takes for a role
ThresholdFor(player_role) == DictGet(JERK_THRESHOLDS, player_role, JERK_THRESHOLDS["default"])

\* The reaction delay of a series of n samples whose jerk is as given, under threshold
DelayBounds(jerk, n, threshold, rtd) ==
    /\ n >= 1 => IsNaN(jerk[1])
    /\ 1 \notin Onsets(jerk, threshold, 2)
    /\ n <= 3 => (\A i \in 1..n : IsNaN(jerk[i])) /\ rtd = n
    /\ Onsets(jerk, threshold, 2) # {} => (2 <= rtd /\ rtd <= n - 1)
    /\ (rtd = n) <=> (Onsets(jerk, threshold, 2) = {})

\* C30: in the per-entity pipeline the jerk of the first sample is undefined and
\* never counts as above the threshold, and a series of at most 3 samples has no
\* defined jerk at all: such a series gets a reaction delay equal to its length,
\* and over the frames 1..n a detected reaction gives a delay of 2..n-1, so the
\* delay is n exactly when no reaction is detected
C30_DelayRange ==
    (Called("calculate_player_rai") /\ ret.raised = "none") =>
        \A view \in {process_player_tracking(FilterEq(args.output_df, "nfl_id", args.nfl_id),
                                             smooth_sigma)} :
            DelayBounds(view.jerk_magnitude, DfLen(view),
                        ThresholdFor(ret.value.player_role), ret.value.rtd)

\* A reaction detected inside a series of more than 3 samples
C30_Witness ==
    /\ Called("calculate_player_rai")
    /\ ret.raised = "none"
    /\ PostFrames(args, args.nfl_id) > 3
    /\ ret.value.rtd >= 2
    /\ ret.value.rtd < PostFrames(args, args.nfl_id)

====
